---- MODULE Spec2Model ----
(***************************************************************************)
(* The replication runtime of HLLLogUtilities (src/lib/storage/runtime.py) *)
(* as a state machine.  One action is one run of a coroutine between two   *)
(* suspension points of the asyncio event loop (or one synchronous call):  *)
(* a step of the loop is atomic, the order of the steps is free.           *)
(*                                                                         *)
(* Time is counted in units of RETRY_INITIAL_DELAY (half a second), so     *)
(* that the back-off delays are integers: 0.5 s is 1 and 30 s is 60.       *)
(* Sleeps and the drain timeout are not measured: a sleeper may wake at    *)
(* any later step and the timeout may fire at any step of the drain.       *)
(***************************************************************************)
EXTENDS Integers, Sequences, FiniteSets, TLC

\* ---------------------------------------------------------------- constants
QUEUE_WARN_THRESHOLD == 25
MAX_CONCURRENT_WRITES == 10
\* 0.5 s, the unit of time of the model
RETRY_INITIAL_DELAY == 1
\* 30 s in units of 0.5 s
RETRY_MAX_DELAY == 60

\* ------------------------------------------------------------------- bounds
\* units of work submitted in the lifecycle specification
MaxTasks == 2
\* failed attempts of one unit in the lifecycle specification
MaxFails == 1
\* failed attempts of one unit in the retry specification
MaxRetryFails == 8
\* units submitted in the retry specification
MaxRetryTasks == 2
\* units submitted beyond MAX_CONCURRENT_WRITES in the gate specification
GateExtra == 2
\* PostgresStorage objects startup() may create
MaxHandles == 2
\* calls of shutdown()
MaxShutdowns == 1
\* submissions refused because replication is disabled
MaxRefused == 1
\* calls of startup() that are counted
MaxStartups == 3
\* units submitted beyond QUEUE_WARN_THRESHOLD in the backlog specification
WarnExtra == 2
\* calendar months the log lines fall in
MaxMonths == 2
\* failed attempts of one unit in the log-batch specification
MaxLogFails == 1
\* log-batch units submitted in the log-batch specification
MaxLogTasks == 2
\* identifiers of the primary store's rows, of each kind
MaxIds == 1
\* contents a snapshot of a row may have
MaxData == 2
\* the clock of the store, NOW(), runs from 1 to MaxNow
MaxNow == 2
\* rows of session_logs in the store specification
MaxRows == 4
\* the guilds a row may belong to
MaxGuilds == 2
\* the record objects the caller holds
MaxObjs == 2
\* the units of the specification of record snapshots
MaxSnapTasks == 2
\* the years of the event times
FirstYear == 2024
LastYear == 2025
\* the largest UTC offset of an event time, in hours
MaxOffset == 2
\* the invocations of a coroutine function wrapped by only_once
MaxInvocations == 4

TaskCap ==
    IF QUEUE_WARN_THRESHOLD + WarnExtra > MAX_CONCURRENT_WRITES + GateExtra
    THEN QUEUE_WARN_THRESHOLD + WarnExtra
    ELSE MAX_CONCURRENT_WRITES + GateExtra
Tasks == 1..TaskCap
Handles == 1..MaxHandles
Months == 1..MaxMonths

Min(a, b) == IF a < b THEN a ELSE b

RECURSIVE Pow2(_)
Pow2(n) == IF n = 0 THEN 1 ELSE 2 * Pow2(n - 1)

\* the values of StorageMode
StorageMode == {"sqlite", "dual", "postgres"}

\* the nine public submission functions
SubmitFns == {"replicate_session", "replicate_session_deletion",
              "replicate_session_mark_deleted", "replicate_session_logs",
              "replicate_session_log_purge", "replicate_credentials",
              "delete_credentials", "replicate_api_key", "delete_api_key"}

VARIABLES
    storage_mode,     \* STORAGE_MODE after the module's configuration code ran
    postgres_config,  \* _POSTGRES_CONFIG is not None
    pg_storage,       \* _pg_storage: 0 is None, h > 0 the h-th PostgresStorage
    pool,             \* PostgresStorage._pool of each object: None, open, closing
    connecting,       \* the objects whose connect() awaits asyncpg.create_pool
    shutting_down,    \* _shutting_down
    pending_tasks,    \* _pending_tasks, a deque of tasks
    gate_value,       \* _concurrency_gate._value
    gate_waiters,     \* _concurrency_gate._waiters, the futures by their task
    pc,               \* where each task's coroutine is suspended
    delay,            \* the local delay of _execute_with_retry
    slept,            \* the delays a unit slept after its failed attempts
    attempts,         \* the calls of coro_factory() of each unit
    successes,        \* the attempts of each unit that returned
    cancel_req,       \* the tasks cancel() was called on that have not run since
    blocking,         \* the unit asyncio.run() executes for a caller without loop
    fail_logged,      \* the tasks whose done callback logged a failure
    shutdown_pc,      \* where shutdown() is suspended
    drain_tasks,      \* the tuple of tasks the last _drain_pending_tasks took
    shutdowns,        \* the calls of shutdown() so far
    refused,          \* the submissions that returned at the disabled check
    startup_ran,      \* startup() was called at least once
    mode_raw,         \* _mode_raw, the mode the configuration asked for
    startup_calls,    \* the calls of startup() so far, up to MaxStartups
    backlog_warnings, \* the backlog warnings _track_task logged, in order
    partition_cache,  \* _partition_cache, by month
    partitions,       \* the months whose partition exists in the store
    create_calls,     \* the partition-create calls issued, by month
    create_fails,     \* the partition-create calls that raised, by month
    batch,            \* the payload of each log-batch unit, <<>> for the others
    ensure_todo,      \* the months _ensure_partitions_for_logs has yet to visit
    creating,         \* the month whose create a unit awaits, 0 for none
    inserting,        \* the units that await their insert_logs
    calls,            \* the store calls of the current attempt of each unit
    skipped,          \* the months the current attempt found in the cache
    db,               \* the tables of the secondary store
    cancelled_from,   \* where each cancelled task was suspended when it ended
    records,          \* the record objects of the caller, by reference
    unit,             \* what each snapshot unit was submitted with
    params,           \* what the current attempt of a snapshot unit writes
    returned,         \* what the last direct call of a store method returned
    event_time,       \* the event_time of the log line whose month was taken
    month_key,        \* the key _ensure_partitions_for_logs derived from it
    ddl,              \* the statement ensure_partitions built for the month
    has_been_ran_once, \* func.__has_been_ran_once of the wrapped function
    invocation,       \* where each call of the decorated function stands
    body_runs         \* the calls of the wrapped function so far

vars == <<storage_mode, postgres_config, pg_storage, pool, connecting,
          shutting_down, pending_tasks, gate_value, gate_waiters, pc, delay,
          slept, attempts, successes, cancel_req, blocking, fail_logged,
          shutdown_pc, drain_tasks, shutdowns, refused, startup_ran, mode_raw,
          startup_calls, backlog_warnings, partition_cache, partitions,
          create_calls, create_fails, batch, ensure_todo, creating, inserting,
          calls, skipped, db, cancelled_from, records, unit, params,
          returned, event_time, month_key, ddl, has_been_ran_once,
          invocation, body_runs>>

configVars == <<storage_mode, postgres_config, mode_raw>>
storeVars == <<pg_storage, pool, connecting>>
gateVars == <<gate_value, gate_waiters>>
taskVars == <<pc, delay, slept, attempts, successes, cancel_req, blocking>>
drainVars == <<shutdown_pc, drain_tasks, shutdowns>>
partVars == <<partition_cache, partitions, create_calls, create_fails>>
unitVars == <<batch, ensure_todo, creating, inserting, calls, skipped>>
auxVars == <<cancelled_from, records, unit, params, returned>>
monthVars == <<event_time, month_key, ddl>>
onceVars == <<has_been_ran_once, invocation, body_runs>>
runtimeVars ==
    <<storeVars, gateVars, taskVars, drainVars, partVars, unitVars, auxVars,
      shutting_down, pending_tasks, fail_logged, refused, startup_ran,
      startup_calls, backlog_warnings, db>>
extVars == <<startup_calls, backlog_warnings, partVars, unitVars, db, auxVars>>

\* task ends: returned, raised, cancelled
Finished == {"done", "error", "cancelled"}

SeqToSet(s) == {s[i] : i \in 1..Len(s)}
Remove(s, x) == SelectSeq(s, LAMBDA y : y # x)

\* ------------------------------------------------------------ configuration
\* what the environment and the configuration file may hold as the mode
RawModes == {"", "sqlite", "dual", "postgres", "bogus"}

\* faulty variant: the mode asked for is kept when no DSN is configured
ResolveModeKeepsRequest(raw, hasDsn) ==
    IF raw \in StorageMode THEN raw ELSE "sqlite"

\* STORAGE_MODE as the module's top-level code leaves it: the raw value parsed
\* (absent or unknown gives sqlite), then forced to sqlite without a DSN
ResolveMode(raw, hasDsn) ==
    LET parsed == IF raw \in StorageMode THEN raw ELSE "sqlite"
    IN  IF parsed \in {"dual", "postgres"} /\ ~hasDsn THEN "sqlite" ELSE parsed

should_write_to_postgres ==
    storage_mode \in {"dual", "postgres"} /\ postgres_config

postgres_ready == pg_storage # 0

pending_task_count == Len(pending_tasks)

\* faulty variant: the enabled predicate forgets the draining flag
replication_enabled_mode_only == should_write_to_postgres

replication_enabled == should_write_to_postgres /\ ~shutting_down

\* the pool property of the current object returns a pool that takes calls
StoreUsable == pg_storage # 0 /\ pool[pg_storage] = "open"

\* --------------------------------------------------------------------- gate
\* the future of waiter w is pending: neither set by a release nor cancelled
Waiting(w) == pc[w] = "gate" /\ w \notin cancel_req

\* the future of waiter w was cancelled (cancel() on a task that awaits it)
FutCancelled(w) == pc[w] = "gate" /\ w \in cancel_req

\* faulty variant: the gate admits every unit
GateNeverLocked == FALSE

\* Semaphore.locked()
GateLocked ==
    \/ gate_value = 0
    \/ \E i \in 1..Len(gate_waiters) : ~FutCancelled(gate_waiters[i])

\* the waiter Semaphore._wake_up_next() wakes, none of `skip`; 0 when none
NextWaiter(skip) ==
    LET idx == {i \in 1..Len(gate_waiters) :
                    Waiting(gate_waiters[i]) /\ gate_waiters[i] \notin skip}
    IN  IF idx = {} THEN 0
        ELSE gate_waiters[CHOOSE i \in idx : \A j \in idx : i <= j]

\* pcf with the waiters of `woken` holding a set future
Grant(pcf, woken) ==
    [u \in Tasks |-> IF u \in woken THEN "granted" ELSE pcf[u]]

\* faulty variant: the unit leaves its attempt without release()
ReleaseToKeeps(t, to) ==
    /\ pc' = [pc EXCEPT ![t] = to]
    /\ UNCHANGED <<gate_value, gate_waiters>>

\* Semaphore.release() by task t, which goes to `to`: the permit is handed to
\* the first waiter, or returned to the counter
ReleaseTo(t, to) ==
    LET w == NextWaiter({})
    IN  /\ gate_value' = IF w = 0 THEN gate_value + 1 ELSE gate_value
        /\ pc' = Grant([pc EXCEPT ![t] = to], IF w = 0 THEN {} ELSE {w})
        /\ UNCHANGED gate_waiters

\* ------------------------------------------------------ months of the logs
\* an event time: a calendar date and hour, naive (aware FALSE) or with a UTC
\* offset in hours
NoTime == [y |-> 0, m |-> 0, d |-> 0, h |-> 0, aware |-> FALSE, off |-> 0]

\* what `ddl` holds before ensure_partitions was called
NoDdl == [name |-> <<>>, start |-> <<>>, end |-> <<>>]

\* the days of a month
DaysIn(y, m) ==
    IF m = 2
    THEN (IF y % 4 = 0 /\ (y % 100 # 0 \/ y % 400 = 0) THEN 29 ELSE 28)
    ELSE IF m \in {4, 6, 9, 11} THEN 30 ELSE 31

\* the event times of log lines: the first and the last day of every month,
\* early and late in the day, naive or with an offset
EventTimes ==
    {t \in [y : FirstYear..LastYear, m : 1..12, d : 1..31,
            h : {0, 1, 22, 23}, aware : BOOLEAN,
            off : (0 - MaxOffset)..MaxOffset] :
        /\ t.d \in {1, DaysIn(t.y, t.m)}
        /\ t.aware \/ t.off = 0}

RECURSIVE Pow10(_)
Pow10(k) == IF k = 0 THEN 1 ELSE 10 * Pow10(k - 1)

\* the decimal digits
Digits == <<"0", "1", "2", "3", "4", "5", "6", "7", "8", "9">>

\* a number formatted with w digits, zero padded (%Y of a four-digit year,
\* %m)
Fmt(n, w) == [i \in 1..w |-> Digits[((n \div Pow10(w - i)) % 10) + 1]]

\* _normalize_month of a full event time: a naive time gets tzinfo UTC, and
\* the day and the time of day are replaced; the offset stays what it is
normalize_month_tz(dt) ==
    [y |-> dt.y, m |-> dt.m, d |-> 1, h |-> 0, aware |-> TRUE,
     off |-> IF dt.aware THEN dt.off ELSE 0]

\* month.strftime("%Y-%m-01"), the key of _ensure_partitions_for_logs
month_strftime(month) ==
    Fmt(month.y, 4) \o <<"-">> \o Fmt(month.m, 2) \o <<"-", "0", "1">>

\* faulty variant: the month after December is not carried into the year
get_month_end_same_year(month_start) ==
    [month_start EXCEPT !.m = @ + 1, !.d = 1]

\* _get_month_end
get_month_end(month_start) ==
    IF month_start.m = 12
    THEN [month_start EXCEPT !.y = @ + 1, !.m = 1, !.d = 1, !.h = 0]
    ELSE [month_start EXCEPT !.m = @ + 1, !.d = 1, !.h = 0]

\* the statement ensure_partitions builds for month_start: CREATE TABLE IF
\* NOT EXISTS name PARTITION OF session_logs FOR VALUES FROM start TO end
ensure_partitions(month_start) ==
    [name |-> <<"session_logs_">> \o Fmt(month_start.y, 4) \o <<"_">>
                \o Fmt(month_start.m, 2),
     start |-> month_strftime(month_start),
     end |-> month_strftime(get_month_end(month_start))]

\* _ensure_partitions_for_logs takes the month of a line with event time dt
\* and derives its key
NormalizeCall(dt) ==
    /\ event_time' = dt
    /\ month_key' = month_strftime(normalize_month_tz(dt))
    /\ ddl' = NoDdl
    /\ UNCHANGED <<configVars, onceVars, runtimeVars>>

\* ensure_partitions is called with the month of the line
EnsureCall ==
    /\ month_key # <<>>
    /\ ddl = NoDdl
    /\ ddl' = ensure_partitions(normalize_month_tz(event_time))
    /\ UNCHANGED <<configVars, onceVars, runtimeVars, event_time, month_key>>

\* -------------------------------------------------------------- only_once
\* a call of `decorated`: with the flag set it raises ExpiredButtonError,
\* else it calls the wrapped function and awaits it
OnceCall(i) ==
    /\ invocation[i] = "idle"
    /\ IF has_been_ran_once
       THEN /\ invocation' = [invocation EXCEPT ![i] = "expired"]
            /\ UNCHANGED body_runs
       ELSE /\ invocation' = [invocation EXCEPT ![i] = "running"]
            /\ body_runs' = body_runs + 1
    /\ UNCHANGED <<configVars, monthVars, runtimeVars, has_been_ran_once>>

\* the wrapped function returns: the flag is set and `decorated` returns
OnceReturn(i) ==
    /\ invocation[i] = "running"
    /\ invocation' = [invocation EXCEPT ![i] = "returned"]
    /\ has_been_ran_once' = TRUE
    /\ UNCHANGED <<configVars, monthVars, runtimeVars, body_runs>>

\* the wrapped function raises: `decorated` raises with the flag as it was
OnceRaise(i) ==
    /\ invocation[i] = "running"
    /\ invocation' = [invocation EXCEPT ![i] = "raised"]
    /\ UNCHANGED <<configVars, monthVars, runtimeVars, has_been_ran_once,
                   body_runs>>

\* --------------------------------------------------------------- submission
\* the task the next submission creates
NewTask == 1 + Cardinality({u \in Tasks : pc[u] # "none"})

\* a caller that found no running loop sits in asyncio.run(_runner()); there
\* is one such caller, the synchronous code of the primary store
CallerBlocked == \E u \in blocking : pc[u] \notin Finished

\* faulty variant: the warning is logged from the threshold on
track_task_from_threshold(t) ==
    /\ pending_tasks' = Append(pending_tasks, t)
    /\ backlog_warnings' =
            IF Len(pending_tasks') >= QUEUE_WARN_THRESHOLD
            THEN Append(backlog_warnings,
                        [size |-> Len(pending_tasks'), latest |-> t])
            ELSE backlog_warnings

\* _track_task: the task joins the deque (its done callback is TaskDone), and
\* a warning with the size of the deque and the label is logged when the size
\* exceeds the threshold
track_task(t) ==
    /\ pending_tasks' = Append(pending_tasks, t)
    /\ backlog_warnings' =
            IF Len(pending_tasks') > QUEUE_WARN_THRESHOLD
            THEN Append(backlog_warnings,
                        [size |-> Len(pending_tasks'), latest |-> t])
            ELSE backlog_warnings

\* _schedule past its disabled check: with a running loop, create_task and
\* _track_task; without one, asyncio.run(_runner()) in the caller
schedule(t, hasLoop) ==
    /\ pc' = [pc EXCEPT ![t] = "created"]
    /\ IF hasLoop
       THEN track_task(t) /\ UNCHANGED blocking
       ELSE /\ blocking' = blocking \cup {t}
            /\ UNCHANGED <<pending_tasks, backlog_warnings>>

\* one of the nine submission functions, called by the primary store; hasLogs
\* is whether `logs` is non-empty (read by replicate_session_logs alone)
replicate(fn, hasLoop, hasLogs, maxTasks) ==
    /\ hasLoop \/ ~CallerBlocked
    /\ IF fn = "replicate_session_logs" /\ ~hasLogs
       THEN UNCHANGED vars
       ELSE IF ~replication_enabled
       THEN /\ refused < MaxRefused
            /\ refused' = refused + 1
            /\ UNCHANGED <<configVars, monthVars, onceVars, extVars,
                           storeVars, shutting_down, pending_tasks, gateVars,
                           taskVars, fail_logged, drainVars, startup_ran>>
       ELSE /\ NewTask <= maxTasks
            /\ schedule(NewTask, hasLoop)
            /\ UNCHANGED <<configVars, monthVars, onceVars, auxVars,
                           startup_calls, partVars, unitVars, db, storeVars,
                           shutting_down, gateVars, delay, slept, attempts,
                           successes, cancel_req, fail_logged, drainVars,
                           refused, startup_ran>>

\* faulty variant: the payload holds the lines in the reverse order
replicate_session_logs_reversed(session_id, logs, maxTasks) ==
    /\ logs # <<>>
    /\ replication_enabled
    /\ NewTask <= maxTasks
    /\ schedule(NewTask, TRUE)
    /\ batch' = [batch EXCEPT ![NewTask] =
                    [session_id |-> session_id,
                     logs |-> [i \in 1..Len(logs) |-> logs[Len(logs) + 1 - i]]]]
    /\ UNCHANGED <<configVars, monthVars, onceVars, auxVars, startup_calls,
                   partVars, ensure_todo, creating, inserting, calls, skipped,
                   db, storeVars, shutting_down, gateVars, delay, slept,
                   attempts, successes, cancel_req, fail_logged, drainVars,
                   refused, startup_ran>>

\* replicate_session_logs with its payload, called on the event loop: the
\* lines are copied in their order and the unit is scheduled with the copy
replicate_session_logs(session_id, logs, maxTasks) ==
    /\ logs # <<>>
    /\ replication_enabled
    /\ NewTask <= maxTasks
    /\ schedule(NewTask, TRUE)
    /\ batch' = [batch EXCEPT ![NewTask] =
                    [session_id |-> session_id,
                     logs |-> [i \in 1..Len(logs) |-> logs[i]]]]
    /\ UNCHANGED <<configVars, monthVars, onceVars, auxVars, startup_calls,
                   partVars, ensure_todo, creating, inserting, calls, skipped,
                   db, storeVars, shutting_down, gateVars, delay, slept,
                   attempts, successes, cancel_req, fail_logged, drainVars,
                   refused, startup_ran>>

\* ------------------------------------------------------ the secondary store
\* a log line: its position in the primary store and its event_time, a day of
\* a calendar month
Line(i, m, d) == [id |-> i, event_time |-> <<m, d>>]

\* the log batches the primary store submits
LogBatches ==
    { <<Line(1, 1, 3)>>,
      <<Line(1, 2, 7)>>,
      <<Line(1, 1, 3), Line(2, 1, 9), Line(3, 2, 1)>>,
      <<Line(1, 2, 7), Line(2, 1, 9)>> }

\* _normalize_month: the first day of the month of a time
normalize_month(dt) == <<dt[1], 1>>

\* the key of a month in the cache, month.strftime("%Y-%m-01")
PartitionKey(month) == month[1]

\* the set `months` of _ensure_partitions_for_logs
MonthsOf(logs) ==
    {normalize_month(logs[i].event_time) : i \in 1..Len(logs)}

\* the keys of the months of a batch
KeysOf(logs) == {PartitionKey(m) : m \in MonthsOf(logs)}

\* the orders in which a for loop may visit the elements of a set
Orders(S) ==
    {q \in [1..Cardinality(S) -> S] :
        \A i, j \in 1..Cardinality(S) : i # j => q[i] # q[j]}

\* the store before anything was written to it
EmptyDb ==
    [sessions |-> {}, credentials |-> {}, api_keys |-> {}, logs |-> <<>>,
     now |-> 1]

\* the store after scripts/sqlite_to_postgres.py copied a primary store that
\* held one session; `data` stands for the columns of a row that are neither
\* its id, its guild, its times nor a reference
MigratedDb ==
    [EmptyDb EXCEPT !.sessions =
        {[id |-> 1, guild_id |-> 1, data |-> 1, start_time |-> 1,
          end_time |-> 0, credentials_id |-> 0, deleted_at |-> 0]}]

\* PostgresStorage.create_session called with a session_id: INSERT ... ON
\* CONFLICT (id) DO UPDATE of every listed column but the id; raises (store
\* unchanged) on a credentials_id that references no row; 0 is NULL
create_session(d, id, guild, data, start, end, cred) ==
    LET old == {r \in d.sessions : r.id = id}
        kept == IF old = {} THEN 0 ELSE (CHOOSE r \in old : TRUE).deleted_at
    IN  IF cred # 0 /\ ~\E c \in d.credentials : c.id = cred
        THEN d
        ELSE [d EXCEPT !.sessions = (@ \ old) \cup
                {[id |-> id, guild_id |-> guild, data |-> data,
                  start_time |-> start, end_time |-> end,
                  credentials_id |-> cred, deleted_at |-> kept]}]

\* PostgresStorage.update_session_end
update_session_end(d, id, end) ==
    [d EXCEPT !.sessions =
        {IF r.id = id THEN [r EXCEPT !.end_time = end] ELSE r : r \in @}]

\* PostgresStorage.mark_session_deleted: deleted_at = COALESCE($2, NOW()),
\* 0 standing for None
mark_session_deleted(d, id, at) ==
    [d EXCEPT !.sessions =
        {IF r.id = id
         THEN [r EXCEPT !.deleted_at = IF at # 0 THEN at ELSE d.now]
         ELSE r : r \in @}]

\* PostgresStorage.delete_session; the logs of the session go with it
\* (ON DELETE CASCADE)
delete_session(d, id) ==
    [d EXCEPT !.sessions = {r \in @ : r.id # id},
              !.logs = SelectSeq(@, LAMBDA row : row.session_id # id)]

\* COALESCE of two values, 0 standing for NULL
Coalesce(a, b) == IF a # 0 THEN a ELSE b

\* faulty variant: the DELETE has no condition on deleted_at
cleanup_expired_sessions_any(d, before) ==
    LET gone == {r \in d.sessions :
                    Coalesce(r.end_time, r.start_time) < before}
        ids == {r.id : r \in gone}
    IN  [db |-> [d EXCEPT !.sessions = @ \ gone,
                          !.logs = SelectSeq(@, LAMBDA row :
                                        row.session_id \notin ids)],
         ids |-> ids]

\* PostgresStorage.cleanup_expired_sessions: the store after the DELETE (the
\* logs of a deleted session go with it) and the ids it returns
cleanup_expired_sessions(d, before) ==
    LET gone == {r \in d.sessions :
                    /\ Coalesce(r.end_time, r.start_time) < before
                    /\ r.deleted_at # 0}
        ids == {r.id : r \in gone}
    IN  [db |-> [d EXCEPT !.sessions = @ \ gone,
                          !.logs = SelectSeq(@, LAMBDA row :
                                        row.session_id \notin ids)],
         ids |-> ids]

\* the store takes the rows of a batch: the session exists and each row falls
\* in a partition
InsertAccepted(d, parts, session_id, logs) ==
    /\ \E r \in d.sessions : r.id = session_id
    /\ KeysOf(logs) \subseteq parts

\* PostgresStorage.insert_logs on a store that takes the rows: one row a line,
\* in the order of the lines, each with a new id
insert_logs(d, session_id, logs) ==
    IF logs = <<>> THEN d
    ELSE [d EXCEPT !.logs = @ \o [i \in 1..Len(logs) |->
                [session_id |-> session_id, line |-> logs[i]]]]

\* what insert_logs returns
insert_logs_result(logs) == IF logs = <<>> THEN 0 ELSE Len(logs)

\* event_time a is earlier than event_time b
Earlier(a, b) == a[1] < b[1] \/ (a[1] = b[1] /\ a[2] < b[2])

\* the rows of a session, in the order of the table
RowsOf(d, session_id) ==
    SelectSeq(d.logs, LAMBDA row : row.session_id = session_id)

\* faulty variant: the SELECT has no ORDER BY and the rows come in the order
\* of the table
fetch_logs_unordered(d, session_id) ==
    LET rows == RowsOf(d, session_id)
    IN  {[i \in 1..Len(rows) |-> rows[i].line]}

\* PostgresStorage.fetch_logs without time, type or limit filter: the lists
\* the SELECT ... ORDER BY event_time ASC may return, rows of one event_time
\* in any order
fetch_logs(d, session_id) ==
    LET rows == RowsOf(d, session_id)
        n == Len(rows)
        sorted == {q \in Orders(1..n) : \A i, j \in 1..n :
                        i < j => ~Earlier(rows[q[j]].line.event_time,
                                          rows[q[i]].line.event_time)}
    IN  {[i \in 1..n |-> rows[q[i]].line] : q \in sorted}

\* PostgresStorage.purge_session_logs
purge_session_logs(d, session_id) ==
    [d EXCEPT !.logs = SelectSeq(@, LAMBDA row : row.session_id # session_id)]

\* the status the store returns for a DELETE of n rows, split at the space
DeleteStatus(n) == <<"DELETE", n>>

\* what purge_session_logs returns: int(result.split(" ")[1])
purge_session_logs_result(d, session_id) ==
    DeleteStatus(Len(RowsOf(d, session_id)))[2]

\* the statement of replicate_credentials: INSERT ... ON CONFLICT (id) DO
\* UPDATE SET of the columns after guild_id; a row that exists keeps its
\* guild_id
upsert_credentials(d, id, guild, data) ==
    LET old == {c \in d.credentials : c.id = id}
        g == IF old = {} THEN guild ELSE (CHOOSE c \in old : TRUE).guild_id
    IN  [d EXCEPT !.credentials =
            (@ \ old) \cup {[id |-> id, guild_id |-> g, data |-> data]}]

\* the statement of delete_credentials; the sessions that refer to the row
\* lose the reference (ON DELETE SET NULL)
delete_credentials_row(d, id) ==
    [d EXCEPT !.credentials = {c \in @ : c.id # id},
              !.sessions = {IF r.credentials_id = id
                            THEN [r EXCEPT !.credentials_id = 0]
                            ELSE r : r \in @}]

\* the statement of replicate_api_key: INSERT ... ON CONFLICT (id) DO UPDATE
\* SET tag, key; a row that exists keeps its guild_id
upsert_api_key(d, id, guild, data) ==
    LET old == {k \in d.api_keys : k.id = id}
        g == IF old = {} THEN guild ELSE (CHOOSE k \in old : TRUE).guild_id
    IN  [d EXCEPT !.api_keys =
            (@ \ old) \cup {[id |-> id, guild_id |-> g, data |-> data]}]

\* the statement of delete_api_key
delete_api_key_row(d, id) ==
    [d EXCEPT !.api_keys = {k \in @ : k.id # id}]

\* the fields of a record object the caller builds: SessionReplica,
\* CredentialReplica and ApiKeyReplica without the id
Contents ==
    [guild_id : 1..MaxGuilds, data : 1..MaxData, start_time : 1..MaxNow,
     end_time : 0..MaxNow, ref : 0..MaxIds]

\* the snapshot a submission function writes for a row: the function, the
\* id, the content, and the log lines
Unit(f, i, c, l) ==
    [fn |-> f, id |-> i, guild_id |-> c.guild_id, data |-> c.data,
     start_time |-> c.start_time, end_time |-> c.end_time, ref |-> c.ref,
     logs |-> l]

\* the content of a call that passes an id alone, or an id and a time `at`
Bare(at) ==
    [guild_id |-> 0, data |-> 0, start_time |-> 0, end_time |-> 0,
     ref |-> at]

\* the snapshots the primary store replicates, one record a submission; a
\* credential or an API key has no times and refers to no row
Snapshots ==
    LET Ids == 1..MaxIds
    IN  {Unit("replicate_session", i, c, <<>>) : i \in Ids, c \in Contents}
        \cup {Unit("replicate_session_mark_deleted", i, Bare(at), <<>>) :
            i \in Ids, at \in 0..MaxNow}
        \cup {Unit("replicate_session_logs", i, Bare(0), l) :
            i \in Ids, l \in LogBatches}
        \cup {Unit(f, i, Bare(0), <<>>) :
            f \in {"replicate_session_deletion",
                   "replicate_session_log_purge", "delete_credentials",
                   "delete_api_key"}, i \in Ids}
        \cup {Unit(f, i, [Bare(0) EXCEPT !.guild_id = g, !.data = v], <<>>) :
            f \in {"replicate_credentials", "replicate_api_key"},
            i \in Ids, g \in 1..MaxGuilds, v \in 1..MaxData}

\* the store operation of the unit of snapshot u raises on store d: a session
\* that refers to missing credentials, log lines of a missing session
Rejected(u, d) ==
    \/ /\ u.fn = "replicate_session"
       /\ u.ref # 0
       /\ ~\E c \in d.credentials : c.id = u.ref
    \/ /\ u.fn = "replicate_session_logs"
       /\ ~\E r \in d.sessions : r.id = u.id

\* the store after the _run of the unit of snapshot u returned
Apply(u, d) ==
    CASE u.fn = "replicate_session" ->
            create_session(d, u.id, u.guild_id, u.data, u.start_time,
                           u.end_time, u.ref)
      [] u.fn = "replicate_session_deletion" -> delete_session(d, u.id)
      [] u.fn = "replicate_session_mark_deleted" ->
            mark_session_deleted(d, u.id, u.ref)
      [] u.fn = "replicate_session_logs" -> insert_logs(d, u.id, u.logs)
      [] u.fn = "replicate_session_log_purge" -> purge_session_logs(d, u.id)
      [] u.fn = "replicate_credentials" ->
            upsert_credentials(d, u.id, u.guild_id, u.data)
      [] u.fn = "delete_credentials" -> delete_credentials_row(d, u.id)
      [] u.fn = "replicate_api_key" ->
            upsert_api_key(d, u.id, u.guild_id, u.data)
      [] u.fn = "delete_api_key" -> delete_api_key_row(d, u.id)

\* the snapshots whose sessions all start at the first time and have no end
UntimedSnapshots ==
    {u \in Snapshots :
        u.fn = "replicate_session" => u.start_time = 1 /\ u.end_time = 0}

\* the unit of snapshot u runs alone on a connected store and succeeds at its
\* first attempt: the partitions of the months of its lines that are not
\* cached are created, then the store operation is applied
RunAlone(u) ==
    LET fresh == KeysOf(u.logs) \ partition_cache
    IN  /\ ~Rejected(u, db)
        /\ Len(db.logs) + Len(u.logs) <= MaxRows
        /\ db' = Apply(u, db)
        /\ partition_cache' = partition_cache \cup fresh
        /\ partitions' = partitions \cup fresh
        /\ create_calls' = [m \in Months |->
                IF m \in fresh THEN create_calls[m] + 1 ELSE create_calls[m]]
        /\ UNCHANGED <<configVars, monthVars, onceVars, auxVars,
                       startup_calls, backlog_warnings, create_fails,
                       unitVars, storeVars, shutting_down, pending_tasks,
                       gateVars, taskVars, fail_logged, drainVars, refused,
                       startup_ran>>

\* the clock of the store advances
StoreTick ==
    /\ db.now < MaxNow
    /\ db' = [db EXCEPT !.now = @ + 1]
    /\ UNCHANGED <<configVars, monthVars, onceVars, auxVars, startup_calls,
                   backlog_warnings, partVars, unitVars, storeVars,
                   shutting_down, pending_tasks, gateVars, taskVars,
                   fail_logged, drainVars, refused, startup_ran>>

\* what `returned` holds before any direct call of a store method
NoReturn == [fn |-> "none", ids |-> {}, count |-> 0, lines |-> <<>>]

\* what a direct call of a store method leaves alone
callFrame ==
    <<configVars, monthVars, onceVars, cancelled_from, records, unit,
      params, startup_calls, backlog_warnings, partition_cache,
      create_calls, create_fails, unitVars, storeVars, shutting_down,
      pending_tasks, gateVars, taskVars, fail_logged, drainVars, refused,
      startup_ran>>

\* ensure_partitions called on the store, as the fixture of the tests does
CallEnsurePartitions(m) ==
    /\ m \notin partitions
    /\ partitions' = partitions \cup {m}
    /\ UNCHANGED <<db, returned, callFrame>>

\* PostgresStorage.update_session_end called on the store
CallUpdateSessionEnd(id, end) ==
    /\ db' = update_session_end(db, id, end)
    /\ returned' = [NoReturn EXCEPT !.fn = "update_session_end"]
    /\ UNCHANGED <<partitions, callFrame>>

\* PostgresStorage.cleanup_expired_sessions called on the store
CallCleanup(before) ==
    LET res == cleanup_expired_sessions(db, before)
    IN  /\ db' = res.db
        /\ returned' = [NoReturn EXCEPT !.fn = "cleanup_expired_sessions",
                                        !.ids = res.ids]
        /\ UNCHANGED <<partitions, callFrame>>

\* PostgresStorage.insert_logs called on the store, which takes the rows
CallInsertLogs(session_id, logs) ==
    /\ InsertAccepted(db, partitions, session_id, logs)
    /\ Len(db.logs) + Len(logs) <= MaxRows
    /\ db' = insert_logs(db, session_id, logs)
    /\ returned' = [NoReturn EXCEPT !.fn = "insert_logs",
                                    !.count = insert_logs_result(logs)]
    /\ UNCHANGED <<partitions, callFrame>>

\* PostgresStorage.fetch_logs called on the store
CallFetchLogs(session_id) ==
    /\ \E l \in fetch_logs(db, session_id) :
            returned' = [NoReturn EXCEPT !.fn = "fetch_logs", !.lines = l]
    /\ UNCHANGED <<db, partitions, callFrame>>

\* PostgresStorage.purge_session_logs called on the store
CallPurgeLogs(session_id) ==
    /\ db' = purge_session_logs(db, session_id)
    /\ returned' = [NoReturn EXCEPT
                        !.fn = "purge_session_logs",
                        !.count = purge_session_logs_result(db, session_id)]
    /\ UNCHANGED <<partitions, callFrame>>

\* ------------------------------------------------- the unit of a snapshot
Objs == 1..MaxObjs

\* a record object as the caller builds it
NewRecord ==
    [guild_id |-> 1, data |-> 1, start_time |-> 1, end_time |-> 0, ref |-> 0]

\* what `unit` holds for a unit that was not submitted with a record or an id
NoUnit == [fn |-> "none", id |-> 0, obj |-> 0, at_call |-> Bare(0)]

\* what `params` holds for a unit with no attempt under way
NoParams == Unit("none", 0, Bare(0), <<>>)

\* the caller assigns a field of a record object it holds: the dataclasses of
\* the records are not frozen
Mutate(obj, v) ==
    /\ records[obj].data # v
    /\ records' = [records EXCEPT ![obj].data = v]
    /\ UNCHANGED <<configVars, monthVars, onceVars, cancelled_from, unit,
                   params, returned, startup_calls, backlog_warnings,
                   partVars, unitVars, db, storeVars, shutting_down,
                   pending_tasks, gateVars, taskVars, fail_logged, drainVars,
                   refused, startup_ran>>

\* replicate_session, replicate_credentials or replicate_api_key called on
\* the event loop with the record object `obj`, or a deletion called with an
\* id alone (obj = 0): the closure _run keeps the id or the reference to the
\* record; at_call notes the content of the record at the call
submit(fn, id, obj, maxTasks) ==
    /\ replication_enabled
    /\ NewTask <= maxTasks
    /\ schedule(NewTask, TRUE)
    /\ unit' = [unit EXCEPT ![NewTask] =
                    [fn |-> fn, id |-> id, obj |-> obj,
                     at_call |-> IF obj = 0 THEN Bare(0) ELSE records[obj]]]
    /\ UNCHANGED <<configVars, monthVars, onceVars, cancelled_from, records,
                   params, returned, startup_calls, partVars, unitVars, db,
                   storeVars, shutting_down, gateVars, delay, slept, attempts,
                   successes, cancel_req, fail_logged, drainVars, refused,
                   startup_ran>>

\* the arguments _run builds when coro_factory() is called: the fields of the
\* record are read from the object then
ParamsOf(u) ==
    Unit(u.fn, u.id, IF u.obj = 0 THEN Bare(0) ELSE records[u.obj], <<>>)

\* ------------------------------------------------- the unit of a log batch
\* what `batch` holds for a unit that is not a log batch
NoBatch == [session_id |-> 0, logs |-> <<>>]

\* the months at the head of `q` that the loop skips as cached
RECURSIVE DropCached(_)
DropCached(q) ==
    IF q = <<>> THEN q
    ELSE IF PartitionKey(Head(q)) \in partition_cache
         THEN DropCached(Tail(q)) ELSE q

\* the _run of replicate_session_logs from the month `todo` starts with to its
\* next suspension, `cl` being the store calls and `sk` the months skipped so
\* far: _ensure_partitions_for_logs skips the cached months, adds the key of
\* the first other month to the cache and awaits its ensure_partitions; with
\* no month left insert_logs is called with the payload
EnsureRun(t, todo, cl, sk) ==
    LET rest == DropCached(todo)
        nsk == sk \cup {PartitionKey(todo[i]) :
                            i \in 1..(Len(todo) - Len(rest))}
    IN  /\ skipped' = [skipped EXCEPT ![t] = nsk]
        /\ IF rest = <<>>
           THEN /\ inserting' = inserting \cup {t}
                /\ creating' = [creating EXCEPT ![t] = 0]
                /\ ensure_todo' = [ensure_todo EXCEPT ![t] = <<>>]
                /\ calls' = [calls EXCEPT ![t] =
                        Append(cl, [op |-> "insert", month |-> 0,
                                    lines |-> batch[t].logs])]
                /\ UNCHANGED <<partition_cache, create_calls>>
           ELSE LET k == PartitionKey(Head(rest))
                IN  /\ partition_cache' = partition_cache \cup {k}
                    /\ create_calls' = [create_calls EXCEPT ![k] = @ + 1]
                    /\ creating' = [creating EXCEPT ![t] = k]
                    /\ ensure_todo' = [ensure_todo EXCEPT ![t] = Tail(rest)]
                    /\ calls' = [calls EXCEPT ![t] =
                            Append(cl, [op |-> "create", month |-> k,
                                        lines |-> <<>>])]
                    /\ UNCHANGED inserting

\* faulty variant: the attempt after a failed one resumes at the insert
AttemptStartResumes(t) ==
    /\ IF pc'[t] = "op" /\ batch[t] # NoBatch
       THEN /\ \E q \in Orders(MonthsOf(batch[t].logs)) :
                    EnsureRun(t, IF slept[t] # <<>> THEN <<>> ELSE q,
                              <<>>, {})
            /\ UNCHANGED <<partitions, create_fails, batch, db>>
       ELSE UNCHANGED <<partVars, unitVars, db>>
    /\ params' = IF pc'[t] = "op" /\ unit[t] # NoUnit
                 THEN [params EXCEPT ![t] = ParamsOf(unit[t])]
                 ELSE params

\* coro_factory() of a unit that was given a permit and a usable store: a log
\* batch runs its _run up to the first store call, in some order of its
\* months; the call of any other unit is one store operation
AttemptStart(t) ==
    /\ IF pc'[t] = "op" /\ batch[t] # NoBatch
       THEN /\ \E q \in Orders(MonthsOf(batch[t].logs)) :
                    EnsureRun(t, q, <<>>, {})
            /\ UNCHANGED <<partitions, create_fails, batch, db>>
       ELSE UNCHANGED <<partVars, unitVars, db>>
    /\ params' = IF pc'[t] = "op" /\ unit[t] # NoUnit
                 THEN [params EXCEPT ![t] = ParamsOf(unit[t])]
                 ELSE params

\* ------------------------------------------------------- the retry executor
\* faulty variant: the delay doubles without the cap
NextDelayUncapped(d) == d * 2

\* the delay after the sleep of a failed attempt
NextDelay(d) == Min(d * 2, RETRY_MAX_DELAY)

\* _wait_for_storage finds the system draining: what becomes of the unit
DrainingExit == "error"

\* the top of the loop of _execute_with_retry, run by a task that starts, or
\* wakes from the readiness sleep or from the back-off sleep: _wait_for_storage,
\* the draining check, and the gate; with a free permit the attempt starts in
\* the same step, and fails in it when the store cannot take the call.
\* _wait_for_storage returns only with _shutting_down false and nothing awaits
\* between its return and the check of line 148, which is therefore never taken
LoopTop(t, maxFails) ==
    /\ pc[t] \in {"created", "wait_ready", "backoff"}
    /\ t \notin cancel_req
    /\ delay' = [delay EXCEPT ![t] = IF pc[t] = "backoff"
                                     THEN NextDelay(delay[t]) ELSE delay[t]]
    /\ IF shutting_down
       THEN /\ pc' = [pc EXCEPT ![t] = DrainingExit]
            /\ UNCHANGED <<gateVars, slept, attempts>>
       ELSE IF pg_storage = 0
       THEN /\ pc' = [pc EXCEPT ![t] = "wait_ready"]
            /\ UNCHANGED <<gateVars, slept, attempts>>
       ELSE IF GateLocked
       THEN /\ pc' = [pc EXCEPT ![t] = "gate"]
            /\ gate_waiters' = Append(gate_waiters, t)
            /\ UNCHANGED <<gate_value, slept, attempts>>
       ELSE IF StoreUsable
       THEN /\ pc' = [pc EXCEPT ![t] = "op"]
            /\ gate_value' = gate_value - 1
            /\ attempts' = [attempts EXCEPT ![t] = @ + 1]
            /\ UNCHANGED <<gate_waiters, slept>>
       ELSE /\ Len(slept[t]) < maxFails
            /\ pc' = [pc EXCEPT ![t] = "backoff"]
            /\ attempts' = [attempts EXCEPT ![t] = @ + 1]
            /\ slept' = [slept EXCEPT ![t] = Append(@, delay'[t])]
            /\ UNCHANGED gateVars
    /\ AttemptStart(t)
    /\ UNCHANGED <<configVars, monthVars, onceVars, cancelled_from, records,
                   unit, returned, startup_calls, backlog_warnings, storeVars,
                   shutting_down, pending_tasks, successes, cancel_req,
                   blocking, fail_logged, drainVars, refused, startup_ran>>

\* a task whose gate future was set resumes in Semaphore.acquire (it leaves
\* the waiters and, with permits left, wakes the next waiter) and starts its
\* attempt under the permit; an attempt the store cannot take fails at once
GateResume(t, maxFails) ==
    /\ pc[t] = "granted"
    /\ t \notin cancel_req
    /\ gate_waiters' = Remove(gate_waiters, t)
    /\ attempts' = [attempts EXCEPT ![t] = @ + 1]
    /\ LET w1 == IF gate_value > 0 THEN NextWaiter({}) ELSE 0
           v1 == IF w1 = 0 THEN gate_value ELSE gate_value - 1
           s1 == IF w1 = 0 THEN {} ELSE {w1}
       IN  IF StoreUsable
           THEN /\ pc' = Grant([pc EXCEPT ![t] = "op"], s1)
                /\ gate_value' = v1
                /\ UNCHANGED slept
           ELSE LET w2 == NextWaiter(s1)
                IN  /\ Len(slept[t]) < maxFails
                    /\ pc' = Grant([pc EXCEPT ![t] = "backoff"],
                                   IF w2 = 0 THEN s1 ELSE s1 \cup {w2})
                    /\ gate_value' = IF w2 = 0 THEN v1 + 1 ELSE v1
                    /\ slept' = [slept EXCEPT ![t] = Append(@, delay[t])]
    /\ AttemptStart(t)
    /\ UNCHANGED <<configVars, monthVars, onceVars, cancelled_from, records,
                   unit, returned, startup_calls, backlog_warnings, storeVars,
                   shutting_down, pending_tasks, delay, successes, cancel_req,
                   blocking, fail_logged, drainVars, refused, startup_ran>>

\* the store operation of the attempt returns: the store holds what the
\* statement of a snapshot unit wrote, the permit is released and
\* _execute_with_retry returns
OpSuccess(t) ==
    /\ pc[t] = "op"
    /\ batch[t] = NoBatch
    /\ t \notin cancel_req
    /\ unit[t] # NoUnit => ~Rejected(params[t], db)
    /\ db' = IF unit[t] # NoUnit THEN Apply(params[t], db) ELSE db
    /\ ReleaseTo(t, "done")
    /\ successes' = [successes EXCEPT ![t] = @ + 1]
    /\ UNCHANGED <<configVars, monthVars, onceVars, auxVars, startup_calls,
                   backlog_warnings, partVars, unitVars, storeVars,
                   shutting_down, pending_tasks, delay, slept, attempts,
                   cancel_req, blocking, fail_logged, drainVars, refused,
                   startup_ran>>

\* faulty variant: the unit is given up at its third failed attempt
OpFailGivesUp(t, maxFails) ==
    /\ pc[t] = "op"
    /\ batch[t] = NoBatch
    /\ t \notin cancel_req
    /\ Len(slept[t]) < maxFails
    /\ ReleaseTo(t, IF Len(slept[t]) >= 2 THEN "error" ELSE "backoff")
    /\ slept' = [slept EXCEPT ![t] = Append(@, delay[t])]
    /\ UNCHANGED <<configVars, monthVars, onceVars, extVars, storeVars,
                   shutting_down, pending_tasks, delay, attempts, successes,
                   cancel_req, blocking, fail_logged, drainVars, refused,
                   startup_ran>>

\* the store operation of the attempt raises: the permit is released, the
\* failure is logged and the unit sleeps for its delay
OpFail(t, maxFails) ==
    /\ pc[t] = "op"
    /\ batch[t] = NoBatch
    /\ t \notin cancel_req
    /\ Len(slept[t]) < maxFails
    /\ ReleaseTo(t, "backoff")
    /\ slept' = [slept EXCEPT ![t] = Append(@, delay[t])]
    /\ UNCHANGED <<configVars, monthVars, onceVars, extVars, storeVars,
                   shutting_down, pending_tasks, delay, attempts, successes,
                   cancel_req, blocking, fail_logged, drainVars, refused,
                   startup_ran>>

\* faulty variant: the CancelledError of a store operation is handled as a
\* failure of the attempt, and the unit sleeps to retry
CancelStepCaught(t) ==
    /\ t \in cancel_req
    /\ pc[t] \notin Finished
    /\ cancel_req' = cancel_req \ {t}
    /\ cancelled_from' = [cancelled_from EXCEPT ![t] = pc[t]]
    /\ CASE pc[t] \in {"created", "wait_ready", "backoff"} ->
                /\ pc' = [pc EXCEPT ![t] = "cancelled"]
                /\ UNCHANGED gateVars
         [] pc[t] = "gate" ->
                /\ pc' = [pc EXCEPT ![t] = "cancelled"]
                /\ gate_waiters' = Remove(gate_waiters, t)
                /\ UNCHANGED gate_value
         [] pc[t] = "granted" ->
                LET w == NextWaiter({})
                IN  /\ gate_waiters' = Remove(gate_waiters, t)
                    /\ gate_value' = IF w = 0 THEN gate_value + 1
                                     ELSE gate_value
                    /\ pc' = Grant([pc EXCEPT ![t] = "cancelled"],
                                   IF w = 0 THEN {} ELSE {w})
         [] pc[t] = "op" -> ReleaseTo(t, "backoff")
    /\ creating' = [creating EXCEPT ![t] = 0]
    /\ ensure_todo' = [ensure_todo EXCEPT ![t] = <<>>]
    /\ inserting' = inserting \ {t}
    /\ UNCHANGED <<configVars, monthVars, onceVars, records, unit, params,
                   returned, startup_calls, backlog_warnings, partVars, batch,
                   calls, skipped, db, storeVars, shutting_down,
                   pending_tasks, delay, slept, attempts, successes, blocking,
                   fail_logged, drainVars, refused, startup_ran>>

\* a task cancel() was called on runs next with CancelledError raised where it
\* is suspended: a sleeper and a waiter of the gate just end, a waiter whose
\* future was already set gives its permit back, the holder of a permit
\* releases it; `except asyncio.CancelledError: raise` ends the task cancelled
CancelStep(t) ==
    /\ t \in cancel_req
    /\ pc[t] \notin Finished
    /\ cancel_req' = cancel_req \ {t}
    /\ cancelled_from' = [cancelled_from EXCEPT ![t] = pc[t]]
    /\ CASE pc[t] \in {"created", "wait_ready", "backoff"} ->
                /\ pc' = [pc EXCEPT ![t] = "cancelled"]
                /\ UNCHANGED gateVars
         [] pc[t] = "gate" ->
                /\ pc' = [pc EXCEPT ![t] = "cancelled"]
                /\ gate_waiters' = Remove(gate_waiters, t)
                /\ UNCHANGED gate_value
         [] pc[t] = "granted" ->
                LET w == NextWaiter({})
                IN  /\ gate_waiters' = Remove(gate_waiters, t)
                    /\ gate_value' = IF w = 0 THEN gate_value + 1
                                     ELSE gate_value
                    /\ pc' = Grant([pc EXCEPT ![t] = "cancelled"],
                                   IF w = 0 THEN {} ELSE {w})
         [] pc[t] = "op" -> ReleaseTo(t, "cancelled")
    /\ creating' = [creating EXCEPT ![t] = 0]
    /\ ensure_todo' = [ensure_todo EXCEPT ![t] = <<>>]
    /\ inserting' = inserting \ {t}
    /\ UNCHANGED <<configVars, monthVars, onceVars, records, unit, params,
                   returned, startup_calls, backlog_warnings, partVars, batch,
                   calls, skipped, db, storeVars, shutting_down,
                   pending_tasks, delay, slept, attempts, successes, blocking,
                   fail_logged, drainVars, refused, startup_ran>>

\* the ensure_partitions a log-batch unit awaits returns: the partition of
\* the month exists and _run goes on
CreateOk(t) ==
    /\ pc[t] = "op"
    /\ creating[t] # 0
    /\ t \notin cancel_req
    /\ StoreUsable
    /\ partitions' = partitions \cup {creating[t]}
    /\ EnsureRun(t, ensure_todo[t], calls[t], skipped[t])
    /\ UNCHANGED <<configVars, monthVars, onceVars, auxVars, startup_calls,
                   backlog_warnings, create_fails, batch, db, storeVars,
                   shutting_down, pending_tasks, gateVars, taskVars,
                   fail_logged, drainVars, refused, startup_ran>>

\* faulty variant: a failed create leaves its key in the cache
CreateFailKeeps(t, maxFails) ==
    /\ pc[t] = "op"
    /\ creating[t] # 0
    /\ t \notin cancel_req
    /\ Len(slept[t]) < maxFails
    /\ create_fails' = [create_fails EXCEPT ![creating[t]] = @ + 1]
    /\ creating' = [creating EXCEPT ![t] = 0]
    /\ ensure_todo' = [ensure_todo EXCEPT ![t] = <<>>]
    /\ ReleaseTo(t, "backoff")
    /\ slept' = [slept EXCEPT ![t] = Append(@, delay[t])]
    /\ UNCHANGED <<configVars, monthVars, onceVars, auxVars, startup_calls,
                   backlog_warnings, partitions, partition_cache,
                   create_calls, batch, inserting, calls, skipped, db,
                   storeVars, shutting_down, pending_tasks, delay, attempts,
                   successes, cancel_req, blocking, fail_logged, drainVars,
                   refused, startup_ran>>

\* the ensure_partitions a log-batch unit awaits raises: the key is discarded
\* from the cache and the error ends the attempt
CreateFail(t, maxFails) ==
    /\ pc[t] = "op"
    /\ creating[t] # 0
    /\ t \notin cancel_req
    /\ Len(slept[t]) < maxFails
    /\ partition_cache' = partition_cache \ {creating[t]}
    /\ create_fails' = [create_fails EXCEPT ![creating[t]] = @ + 1]
    /\ creating' = [creating EXCEPT ![t] = 0]
    /\ ensure_todo' = [ensure_todo EXCEPT ![t] = <<>>]
    /\ ReleaseTo(t, "backoff")
    /\ slept' = [slept EXCEPT ![t] = Append(@, delay[t])]
    /\ UNCHANGED <<configVars, monthVars, onceVars, auxVars, startup_calls,
                   backlog_warnings, partitions, create_calls, batch,
                   inserting, calls, skipped, db, storeVars, shutting_down,
                   pending_tasks, delay, attempts, successes, cancel_req,
                   blocking, fail_logged, drainVars, refused, startup_ran>>

\* the insert_logs a log-batch unit awaits returns: the store took the rows
InsertOk(t) ==
    /\ pc[t] = "op"
    /\ t \in inserting
    /\ t \notin cancel_req
    /\ StoreUsable
    /\ InsertAccepted(db, partitions, batch[t].session_id, batch[t].logs)
    /\ db' = insert_logs(db, batch[t].session_id, batch[t].logs)
    /\ inserting' = inserting \ {t}
    /\ ReleaseTo(t, "done")
    /\ successes' = [successes EXCEPT ![t] = @ + 1]
    /\ UNCHANGED <<configVars, monthVars, onceVars, auxVars, startup_calls,
                   backlog_warnings, partVars, batch, ensure_todo, creating,
                   calls, skipped, storeVars, shutting_down, pending_tasks,
                   delay, slept, attempts, cancel_req, blocking, fail_logged,
                   drainVars, refused, startup_ran>>

\* the insert_logs a log-batch unit awaits raises: the store refused the
\* rows, or the call failed
InsertFail(t, maxFails) ==
    /\ pc[t] = "op"
    /\ t \in inserting
    /\ t \notin cancel_req
    /\ Len(slept[t]) < maxFails
    /\ inserting' = inserting \ {t}
    /\ ReleaseTo(t, "backoff")
    /\ slept' = [slept EXCEPT ![t] = Append(@, delay[t])]
    /\ UNCHANGED <<configVars, monthVars, onceVars, auxVars, startup_calls,
                   backlog_warnings, partVars, batch, ensure_todo, creating,
                   calls, skipped, db, storeVars, shutting_down,
                   pending_tasks, delay, attempts, successes, cancel_req,
                   blocking, fail_logged, drainVars, refused, startup_ran>>

\* what the done callback of _track_task logs as a failure: t.result() raising
\* an Exception (CancelledError is a BaseException and is not caught)
LogsFailure(t) == pc[t] = "error"

\* faulty variant: the done callback logs the result and leaves the task in the deque
TaskDoneKeeps(t) ==
    /\ pc[t] \in Finished
    /\ t \in SeqToSet(pending_tasks)
    /\ t \notin fail_logged
    /\ LogsFailure(t)
    /\ fail_logged' = fail_logged \cup {t}
    /\ UNCHANGED <<configVars, monthVars, onceVars, extVars, storeVars,
                   shutting_down, pending_tasks, gateVars, taskVars,
                   drainVars, refused, startup_ran>>

\* _task_done, the done callback of a tracked task
TaskDone(t) ==
    /\ pc[t] \in Finished
    /\ t \in SeqToSet(pending_tasks)
    /\ pending_tasks' = Remove(pending_tasks, t)
    /\ fail_logged' = IF LogsFailure(t) THEN fail_logged \cup {t}
                      ELSE fail_logged
    /\ UNCHANGED <<configVars, monthVars, onceVars, extVars, storeVars,
                   shutting_down, gateVars, taskVars, drainVars, refused,
                   startup_ran>>

\* ---------------------------------------------------------------- lifecycle
\* the PostgresStorage objects not yet constructed
FreshHandles == {h \in Handles : pool[h] = "absent"}

\* faulty variant: startup() does not look for an object that is already set
startup_unguarded ==
    /\ shutting_down' = FALSE
    /\ startup_ran' = TRUE
    /\ startup_calls' = Min(startup_calls + 1, MaxStartups)
    /\ IF ~should_write_to_postgres
       THEN UNCHANGED storeVars
       ELSE /\ FreshHandles # {}
            /\ LET h == CHOOSE x \in FreshHandles : \A y \in FreshHandles : x <= y
               IN  /\ pg_storage' = h
                   /\ pool' = [pool EXCEPT ![h] = "None"]
                   /\ connecting' = connecting \cup {h}
    /\ UNCHANGED <<configVars, monthVars, onceVars, auxVars, backlog_warnings,
                   partVars, unitVars, db, pending_tasks, gateVars, taskVars,
                   fail_logged, drainVars, refused>>

\* startup() up to its first suspension: the flag is cleared, then nothing
\* more when replication is off or an object is set; else a new object is
\* stored in _pg_storage and its connect() awaits the pool
startup ==
    /\ shutting_down' = FALSE
    /\ startup_ran' = TRUE
    /\ startup_calls' = Min(startup_calls + 1, MaxStartups)
    /\ IF ~should_write_to_postgres \/ pg_storage # 0
       THEN UNCHANGED storeVars
       ELSE /\ FreshHandles # {}
            /\ LET h == CHOOSE x \in FreshHandles : \A y \in FreshHandles : x <= y
               IN  /\ pg_storage' = h
                   /\ pool' = [pool EXCEPT ![h] = "None"]
                   /\ connecting' = connecting \cup {h}
    /\ UNCHANGED <<configVars, monthVars, onceVars, auxVars, backlog_warnings,
                   partVars, unitVars, db, pending_tasks, gateVars, taskVars,
                   fail_logged, drainVars, refused>>

\* asyncpg.create_pool returns: connect() stores the pool in its object
ConnectOk(h) ==
    /\ h \in connecting
    /\ connecting' = connecting \ {h}
    /\ pool' = [pool EXCEPT ![h] = "open"]
    /\ UNCHANGED <<configVars, monthVars, onceVars, extVars, pg_storage,
                   shutting_down, pending_tasks, gateVars, taskVars,
                   fail_logged, drainVars, refused, startup_ran>>

\* asyncpg.create_pool raises: the error leaves connect() and startup(), and
\* _pg_storage keeps the object without a pool
ConnectFail(h) ==
    /\ h \in connecting
    /\ connecting' = connecting \ {h}
    /\ UNCHANGED <<configVars, monthVars, onceVars, extVars, pg_storage, pool,
                   shutting_down, pending_tasks, gateVars, taskVars,
                   fail_logged, drainVars, refused, startup_ran>>

\* faulty variant: close() is awaited whether or not an object with a pool is set
ClosePhaseUnguarded ==
    /\ pool' = [h \in Handles |-> IF h = pg_storage THEN "closing" ELSE pool[h]]
    /\ shutdown_pc' = "closing"
    /\ UNCHANGED <<pg_storage, connecting>>

\* shutdown() after the drain, lines 196-199: with an object set its close()
\* is awaited, which suspends only for a pool; then _pg_storage is cleared
ClosePhase ==
    IF pg_storage # 0 /\ pool[pg_storage] = "open"
    THEN /\ pool' = [pool EXCEPT ![pg_storage] = "closing"]
         /\ shutdown_pc' = "closing"
         /\ UNCHANGED <<pg_storage, connecting>>
    ELSE /\ pg_storage' = 0
         /\ shutdown_pc' = "idle"
         /\ UNCHANGED <<pool, connecting>>

\* shutdown() up to its first suspension: the flag is set; with no pending
\* task _drain_pending_tasks returns at once, else it gathers the pending
\* tasks under the timeout
shutdown(maxShutdowns) ==
    /\ shutdown_pc = "idle"
    /\ shutdowns < maxShutdowns
    /\ shutdowns' = shutdowns + 1
    /\ shutting_down' = TRUE
    /\ drain_tasks' = SeqToSet(pending_tasks)
    /\ IF pending_tasks = <<>>
       THEN ClosePhase
       ELSE /\ shutdown_pc' = "draining"
            /\ UNCHANGED storeVars
    /\ UNCHANGED <<configVars, monthVars, onceVars, extVars, pending_tasks,
                   gateVars, taskVars, fail_logged, refused, startup_ran>>

\* faulty variant: shutdown() does not wait for the gather
DrainNotAwaited == TRUE

\* the gather of the drain is done once each of its tasks is, and each task
\* ran its done callbacks (that of _track_task first) before the gather's
DrainFinished ==
    \A t \in drain_tasks : pc[t] \in Finished /\ t \notin SeqToSet(pending_tasks)

\* the gather completes, before the timeout or after the cancellation that
\* follows it: _drain_pending_tasks returns and shutdown() goes on
DrainDone ==
    /\ shutdown_pc \in {"draining", "cancelling"}
    /\ DrainFinished
    /\ ClosePhase
    /\ UNCHANGED <<configVars, monthVars, onceVars, extVars, shutting_down,
                   pending_tasks, gateVars, taskVars, fail_logged,
                   drain_tasks, shutdowns, refused, startup_ran>>

\* faulty variant: the timeout leaves the tasks of the gather running
TimeoutCancelsNone == {}

\* the tasks wait_for cancels when the timeout fires: those of the gather
\* that are not done
TimeoutCancels == {t \in drain_tasks : pc[t] \notin Finished}

\* the timeout of wait_for fires: the gather is cancelled, which calls
\* cancel() on each of its tasks that is not done, and wait_for waits for the
\* gather to end
DrainTimeout ==
    /\ shutdown_pc = "draining"
    /\ ~DrainFinished
    /\ cancel_req' = cancel_req \cup TimeoutCancels
    /\ shutdown_pc' = "cancelling"
    /\ UNCHANGED <<configVars, monthVars, onceVars, extVars, storeVars,
                   shutting_down, pending_tasks, gateVars, pc, delay, slept,
                   attempts, successes, blocking, fail_logged, drain_tasks,
                   shutdowns, refused, startup_ran>>

\* the close() of the pool returns: close() clears _pool and shutdown()
\* clears _pg_storage
CloseDone ==
    /\ shutdown_pc = "closing"
    /\ pool' = [h \in Handles |-> IF h = pg_storage THEN "None" ELSE pool[h]]
    /\ pg_storage' = 0
    /\ shutdown_pc' = "idle"
    /\ UNCHANGED <<configVars, monthVars, onceVars, extVars, connecting,
                   shutting_down, pending_tasks, gateVars, taskVars,
                   fail_logged, drain_tasks, shutdowns, refused, startup_ran>>

\* ----------------------------------------------------------- specifications
TypeOK ==
    /\ storage_mode \in StorageMode
    /\ postgres_config \in BOOLEAN
    /\ pg_storage \in {0} \cup Handles
    /\ pool \in [Handles -> {"absent", "None", "open", "closing"}]
    /\ connecting \subseteq Handles
    /\ shutting_down \in BOOLEAN
    /\ SeqToSet(pending_tasks) \subseteq Tasks
    /\ gate_value \in 0..MAX_CONCURRENT_WRITES
    /\ SeqToSet(gate_waiters) \subseteq Tasks
    /\ pc \in [Tasks -> {"none", "created", "wait_ready", "gate", "granted",
                         "op", "backoff"} \cup Finished]
    /\ cancel_req \subseteq Tasks
    /\ blocking \subseteq Tasks
    /\ shutdown_pc \in {"idle", "draining", "cancelling", "closing"}

\* the state after import with the mode `raw` asked for and a DSN or none
InitWith(raw, hasDsn) ==
    /\ mode_raw = raw
    /\ storage_mode = ResolveMode(raw, hasDsn)
    /\ postgres_config = hasDsn
    /\ pg_storage = 0
    /\ pool = [h \in Handles |-> "absent"]
    /\ connecting = {}
    /\ shutting_down = FALSE
    /\ pending_tasks = <<>>
    /\ gate_value = MAX_CONCURRENT_WRITES
    /\ gate_waiters = <<>>
    /\ pc = [t \in Tasks |-> "none"]
    /\ delay = [t \in Tasks |-> RETRY_INITIAL_DELAY]
    /\ slept = [t \in Tasks |-> <<>>]
    /\ attempts = [t \in Tasks |-> 0]
    /\ successes = [t \in Tasks |-> 0]
    /\ cancel_req = {}
    /\ blocking = {}
    /\ fail_logged = {}
    /\ shutdown_pc = "idle"
    /\ drain_tasks = {}
    /\ shutdowns = 0
    /\ refused = 0
    /\ startup_ran = FALSE
    /\ startup_calls = 0
    /\ backlog_warnings = <<>>
    /\ partition_cache = {}
    /\ partitions = {}
    /\ create_calls = [m \in Months |-> 0]
    /\ create_fails = [m \in Months |-> 0]
    /\ batch = [t \in Tasks |-> NoBatch]
    /\ ensure_todo = [t \in Tasks |-> <<>>]
    /\ creating = [t \in Tasks |-> 0]
    /\ inserting = {}
    /\ calls = [t \in Tasks |-> <<>>]
    /\ skipped = [t \in Tasks |-> {}]
    /\ db = EmptyDb
    /\ cancelled_from = [t \in Tasks |-> "none"]
    /\ records = [o \in Objs |-> NewRecord]
    /\ unit = [t \in Tasks |-> NoUnit]
    /\ params = [t \in Tasks |-> NoParams]
    /\ returned = NoReturn
    /\ event_time = NoTime
    /\ month_key = <<>>
    /\ ddl = NoDdl
    /\ has_been_ran_once = FALSE
    /\ invocation = [i \in 1..MaxInvocations |-> "idle"]
    /\ body_runs = 0

\* the module as imported, under any configuration
Init ==
    \E raw \in RawModes, hasDsn \in BOOLEAN :
        InitWith(raw, hasDsn)

\* the whole life of the runtime, with callers on the event loop and without
\* a loop, and fewer units than permits, so that no unit waits at the gate
Next ==
    \/ \E fn \in SubmitFns, hasLogs \in BOOLEAN :
            \/ replicate(fn, TRUE, hasLogs, MaxTasks)
            \/ replicate(fn, FALSE, hasLogs, MaxTasks)
    \/ \E t \in Tasks :
            \/ LoopTop(t, MaxFails)
            \/ OpSuccess(t)
            \/ OpFail(t, MaxFails)
            \/ CancelStep(t)
            \/ TaskDone(t)
    \/ startup
    \/ \E h \in Handles : ConnectOk(h) \/ ConnectFail(h)
    \/ shutdown(MaxShutdowns)
    \/ DrainDone
    \/ DrainTimeout
    \/ CloseDone

Spec == Init /\ [][Next]_vars

\* the steps of the loop that the loop itself owes: the timeout of the
\* drain, the delivery of a cancellation, the done callbacks, the wake-up of
\* shutdown() after its gather, and the return of the pool's close()
DrainFairness ==
    /\ WF_vars(DrainTimeout)
    /\ WF_vars(DrainDone)
    /\ WF_vars(CloseDone)
    /\ \A t \in Tasks : WF_vars(CancelStep(t)) /\ WF_vars(TaskDone(t))

SpecDrain == Init /\ [][Next]_vars /\ DrainFairness

\* ------------------------------------------------------- the gate under load
\* the units whose store operation is in flight from the start of the gate
\* specification and does not return in the behaviours it covers: all the
\* permits but one are taken
HeldOps == MAX_CONCURRENT_WRITES - 1
FreeTasks == {t \in Tasks : t > HeldOps}

\* a state the lifecycle reaches with a connected pool: startup() returned and
\* the units of `held` were submitted, took a permit each and await the store
InitStarted(held) ==
    /\ storage_mode = "dual"
    /\ postgres_config = TRUE
    /\ pg_storage = 1
    /\ pool = [h \in Handles |-> IF h = 1 THEN "open" ELSE "absent"]
    /\ connecting = {}
    /\ shutting_down = FALSE
    /\ pending_tasks = [i \in 1..held |-> i]
    /\ gate_value = MAX_CONCURRENT_WRITES - held
    /\ gate_waiters = <<>>
    /\ pc = [t \in Tasks |-> IF t <= held THEN "op" ELSE "none"]
    /\ delay = [t \in Tasks |-> RETRY_INITIAL_DELAY]
    /\ slept = [t \in Tasks |-> <<>>]
    /\ attempts = [t \in Tasks |-> IF t <= held THEN 1 ELSE 0]
    /\ successes = [t \in Tasks |-> 0]
    /\ cancel_req = {}
    /\ blocking = {}
    /\ fail_logged = {}
    /\ shutdown_pc = "idle"
    /\ drain_tasks = {}
    /\ shutdowns = 0
    /\ refused = 0
    /\ startup_ran = TRUE
    /\ mode_raw = "dual"
    /\ startup_calls = 1
    /\ backlog_warnings = <<>>
    /\ partition_cache = {}
    /\ partitions = {}
    /\ create_calls = [m \in Months |-> 0]
    /\ create_fails = [m \in Months |-> 0]
    /\ batch = [t \in Tasks |-> NoBatch]
    /\ ensure_todo = [t \in Tasks |-> <<>>]
    /\ creating = [t \in Tasks |-> 0]
    /\ inserting = {}
    /\ calls = [t \in Tasks |-> <<>>]
    /\ skipped = [t \in Tasks |-> {}]
    /\ db = MigratedDb
    /\ cancelled_from = [t \in Tasks |-> "none"]
    /\ records = [o \in Objs |-> NewRecord]
    /\ unit = [t \in Tasks |-> NoUnit]
    /\ params = [t \in Tasks |-> NoParams]
    /\ returned = NoReturn
    /\ event_time = NoTime
    /\ month_key = <<>>
    /\ ddl = NoDdl
    /\ has_been_ran_once = FALSE
    /\ invocation = [i \in 1..MaxInvocations |-> "idle"]
    /\ body_runs = 0

\* more units than permits: further submissions, the steps of their tasks,
\* and shutdown() up to the wait of its drain
NextGate ==
    \/ \E fn \in SubmitFns :
            replicate(fn, TRUE, TRUE, MAX_CONCURRENT_WRITES + GateExtra)
    \/ \E t \in FreeTasks :
            \/ LoopTop(t, MaxFails)
            \/ GateResume(t, MaxFails)
            \/ OpSuccess(t)
            \/ OpFail(t, MaxFails)
            \/ TaskDone(t)
    \/ shutdown(MaxShutdowns)

SpecGate == InitStarted(HeldOps) /\ [][NextGate]_vars

\* ---------------------------------------------------- units that keep failing
\* a connected store whose operations fail up to MaxRetryFails times a unit
NextRetry ==
    \/ \E fn \in SubmitFns : replicate(fn, TRUE, TRUE, MaxRetryTasks)
    \/ \E t \in Tasks :
            \/ LoopTop(t, MaxRetryFails)
            \/ OpSuccess(t)
            \/ OpFail(t, MaxRetryFails)
            \/ TaskDone(t)

SpecRetry == InitStarted(0) /\ [][NextRetry]_vars

\* ------------------------------------------- a store that becomes available
\* units submitted before and after startup(), operations that fail up to
\* MaxFails times a unit, no shutdown and no cancellation
NextLive ==
    \/ \E fn \in SubmitFns : replicate(fn, TRUE, TRUE, MaxTasks + 1)
    \/ \E t \in Tasks :
            \/ LoopTop(t, MaxFails)
            \/ OpSuccess(t)
            \/ OpFail(t, MaxFails)
            \/ TaskDone(t)
    \/ startup
    \/ \E h \in Handles : ConnectOk(h)

\* the loop runs every task that can run and every done callback; startup()
\* is called and its connect() returns; an operation that can no longer fail
\* returns
LiveFairness ==
    /\ WF_vars(startup)
    /\ \A h \in Handles : WF_vars(ConnectOk(h))
    /\ \A t \in Tasks :
        /\ WF_vars(LoopTop(t, MaxFails))
        /\ WF_vars(OpSuccess(t))
        /\ WF_vars(TaskDone(t))

SpecLive == InitWith("dual", TRUE) /\ [][NextLive]_vars /\ LiveFairness

\* ------------------------------------------------------ log batches at work
\* a connected store that holds the session of the logs; log batches are
\* submitted and their units run side by side, each create and each insert
\* succeeding or failing, a unit failing up to MaxLogFails times
NextLogs ==
    \/ \E b \in LogBatches, r \in db.sessions :
            replicate_session_logs(r.id, b, MaxLogTasks)
    \/ \E t \in Tasks :
            \/ LoopTop(t, MaxLogFails)
            \/ CreateOk(t)
            \/ CreateFail(t, MaxLogFails)
            \/ InsertOk(t)
            \/ InsertFail(t, MaxLogFails)
            \/ TaskDone(t)

SpecLogs == InitStarted(0) /\ [][NextLogs]_vars

\* ------------------------------------------------------------- the backlog
\* the units submitted before startup() that sleep in the readiness wait from
\* the start of the backlog specification: one short of the threshold
BacklogHeld == QUEUE_WARN_THRESHOLD - 1
BacklogFree == {t \in Tasks : t > BacklogHeld}

\* a state the lifecycle reaches before startup(): BacklogHeld units were
\* submitted on the event loop, and each found no store and sleeps
InitBacklog ==
    /\ mode_raw = "dual"
    /\ storage_mode = ResolveMode("dual", TRUE)
    /\ postgres_config = TRUE
    /\ pg_storage = 0
    /\ pool = [h \in Handles |-> "absent"]
    /\ connecting = {}
    /\ shutting_down = FALSE
    /\ pending_tasks = [i \in 1..BacklogHeld |-> i]
    /\ gate_value = MAX_CONCURRENT_WRITES
    /\ gate_waiters = <<>>
    /\ pc = [t \in Tasks |-> IF t <= BacklogHeld THEN "wait_ready" ELSE "none"]
    /\ delay = [t \in Tasks |-> RETRY_INITIAL_DELAY]
    /\ slept = [t \in Tasks |-> <<>>]
    /\ attempts = [t \in Tasks |-> 0]
    /\ successes = [t \in Tasks |-> 0]
    /\ cancel_req = {}
    /\ blocking = {}
    /\ fail_logged = {}
    /\ shutdown_pc = "idle"
    /\ drain_tasks = {}
    /\ shutdowns = 0
    /\ refused = 0
    /\ startup_ran = FALSE
    /\ startup_calls = 0
    /\ backlog_warnings = <<>>
    /\ partition_cache = {}
    /\ partitions = {}
    /\ create_calls = [m \in Months |-> 0]
    /\ create_fails = [m \in Months |-> 0]
    /\ batch = [t \in Tasks |-> NoBatch]
    /\ ensure_todo = [t \in Tasks |-> <<>>]
    /\ creating = [t \in Tasks |-> 0]
    /\ inserting = {}
    /\ calls = [t \in Tasks |-> <<>>]
    /\ skipped = [t \in Tasks |-> {}]
    /\ db = EmptyDb
    /\ cancelled_from = [t \in Tasks |-> "none"]
    /\ records = [o \in Objs |-> NewRecord]
    /\ unit = [t \in Tasks |-> NoUnit]
    /\ params = [t \in Tasks |-> NoParams]
    /\ returned = NoReturn
    /\ event_time = NoTime
    /\ month_key = <<>>
    /\ ddl = NoDdl
    /\ has_been_ran_once = FALSE
    /\ invocation = [i \in 1..MaxInvocations |-> "idle"]
    /\ body_runs = 0

\* further submissions around the threshold, startup(), and the steps of the
\* further units, which run while the first ones still sleep
NextBacklog ==
    \/ \E fn \in SubmitFns :
            replicate(fn, TRUE, TRUE, QUEUE_WARN_THRESHOLD + WarnExtra)
    \/ \E t \in BacklogFree :
            \/ LoopTop(t, MaxFails)
            \/ OpSuccess(t)
            \/ OpFail(t, MaxFails)
            \/ TaskDone(t)
    \/ startup
    \/ \E h \in Handles : ConnectOk(h)

SpecBacklog == InitBacklog /\ [][NextBacklog]_vars

\* ------------------------------------------------- the contents of the store
\* a connected store, and units that run one after the other, each with
\* success
NextStore ==
    \/ \E u \in UntimedSnapshots : RunAlone(u)
    \/ StoreTick

SpecStore == InitStarted(0) /\ [][NextStore]_vars

\* cancellation under load: more units than permits, the steps of their
\* tasks, shutdown(), and the timeout of its drain, which cancels the tasks
NextCancel ==
    \/ \E fn \in SubmitFns :
            replicate(fn, TRUE, TRUE, MAX_CONCURRENT_WRITES + GateExtra)
    \/ \E t \in FreeTasks :
            \/ LoopTop(t, MaxFails)
            \/ GateResume(t, MaxFails)
            \/ OpSuccess(t)
            \/ OpFail(t, MaxFails)
            \/ CancelStep(t)
            \/ TaskDone(t)
    \/ shutdown(MaxShutdowns)
    \/ DrainTimeout

SpecCancel == InitStarted(HeldOps) /\ [][NextCancel]_vars

\* snapshots of sessions and deletions of sessions submitted on the event
\* loop by a caller that goes on to use its record objects, and the steps of
\* their units
NextSnap ==
    \/ \E i \in 1..MaxIds, o \in Objs :
            submit("replicate_session", i, o, MaxSnapTasks)
    \/ \E i \in 1..MaxIds :
            submit("replicate_session_deletion", i, 0, MaxSnapTasks)
    \/ \E o \in Objs, v \in 1..MaxData : Mutate(o, v)
    \/ \E t \in 1..MaxSnapTasks :
            \/ LoopTop(t, MaxFails)
            \/ OpSuccess(t)
            \/ OpFail(t, MaxFails)
            \/ TaskDone(t)

SpecSnap == InitStarted(0) /\ [][NextSnap]_vars

\* the snapshots of sessions of one guild that differ in their times alone
TimedSessions ==
    {u \in Snapshots : /\ u.fn = "replicate_session"
                       /\ u.guild_id = 1 /\ u.data = 1 /\ u.ref = 0}

\* the methods of the store called one at a time, as the tests call them
NextCalls ==
    \/ \E u \in TimedSessions : RunAlone(u)
    \/ \E i \in 1..MaxIds, at \in 0..MaxNow :
            RunAlone(Unit("replicate_session_mark_deleted", i, Bare(at),
                          <<>>))
    \/ \E m \in Months : CallEnsurePartitions(m)
    \/ \E i \in 1..MaxIds, e \in 1..MaxNow : CallUpdateSessionEnd(i, e)
    \/ \E before \in 1..(MaxNow + 1) : CallCleanup(before)
    \/ \E i \in 1..MaxIds, l \in LogBatches : CallInsertLogs(i, l)
    \/ \E i \in 1..MaxIds : CallFetchLogs(i)
    \/ \E i \in 1..MaxIds : CallPurgeLogs(i)
    \/ StoreTick

SpecCalls == InitStarted(0) /\ [][NextCalls]_vars

\* the months of log lines and the partitions made for them
NextMonth ==
    \/ \E dt \in EventTimes : NormalizeCall(dt)
    \/ EnsureCall

SpecMonth == InitStarted(0) /\ [][NextMonth]_vars

\* calls of a coroutine function wrapped by only_once, in any interleaving
NextOnce ==
    \E i \in 1..MaxInvocations :
        \/ OnceCall(i)
        \/ OnceReturn(i)
        \/ OnceRaise(i)

SpecOnce == InitStarted(0) /\ [][NextOnce]_vars

\* ================================================================== claims
\* the units of work that exist
Submitted == {t \in Tasks : pc[t] # "none"}

\* C1: every submission function returns to its caller without waiting for
\* the unit of work, for the store or for a retry, also when the caller has
\* no running event loop: no caller is ever held in a submission
C1_CallerNeverWaits == ~CallerBlocked

\* replication is disabled: by the resolved mode, or by the draining flag
ReplicationDisabled ==
    \/ ~(storage_mode \in {"dual", "postgres"} /\ postgres_config)
    \/ shutting_down

\* C2: while replication is disabled (by the mode or by the draining flag) a
\* submission is a pure no-op: no step taken in such a state creates a task,
\* and a refused submission leaves the pending set, the tasks, the gate and
\* the store as they were
C2_DisabledSubmitNoop ==
    [][ReplicationDisabled =>
        /\ \A t \in Tasks : pc[t] = "none" => pc'[t] = "none"
        /\ refused' # refused =>
              /\ pending_tasks' = pending_tasks
              /\ taskVars' = taskVars
              /\ gateVars' = gateVars
              /\ storeVars' = storeVars]_vars

\* a submission was refused while the system drained, replication configured
C2_Witness ==
    refused > 0 /\ shutting_down /\ should_write_to_postgres

\* the unit of task t was executed with success once, and its task left the
\* pending set
Landed(t) ==
    /\ pc[t] = "done"
    /\ successes[t] = 1
    /\ t \notin SeqToSet(pending_tasks)

\* C3: a unit submitted while the store is not connected or while its
\* operations fail is, once the store is ready and its operations succeed and
\* without shutdown or cancellation, executed with success exactly once, and
\* its task leaves the pending set
C3_EventuallyLandsOnce ==
    /\ [](\A t \in Tasks : successes[t] <= 1)
    /\ [][\A t \in Tasks : pc[t] = "done" => pc'[t] = "done"
                                              /\ attempts'[t] = attempts[t]]_vars
    /\ \A t \in Tasks : (pc[t] = "created") ~> Landed(t)

\* a unit submitted before the store was connected, which failed an attempt,
\* has landed
C3_Witness ==
    \E t \in Tasks : Landed(t) /\ Len(slept[t]) > 0 /\ attempts[t] > 1

\* C4: the delay slept after the k-th consecutive failed attempt of a unit is
\* min(0.5 * 2^(k-1), 30) seconds (in units of 0.5 s: min(2^(k-1), 60)), so
\* it starts at 0.5 s, doubles, never exceeds 30 s and never decreases
C4_BackoffSequence ==
    \A t \in Tasks : \A k \in 1..Len(slept[t]) :
        /\ slept[t][k] = Min(RETRY_INITIAL_DELAY * Pow2(k - 1), RETRY_MAX_DELAY)
        /\ k > 1 => slept[t][k] >= slept[t][k - 1]

\* a unit slept 0.5, 1, 2, 4, 8, 16, 30 and 30 seconds
C4_Witness ==
    \E t \in Tasks : slept[t] = <<1, 2, 4, 8, 16, 32, 60, 60>>

\* the units inside an attempt against the store
MidAttempt == {t \in Tasks : pc[t] = "op"}

\* C5: at most MAX_CONCURRENT_WRITES units execute an attempt against the
\* store at the same time, whatever the number of units submitted
C5_GateBound == Cardinality(MidAttempt) <= MAX_CONCURRENT_WRITES

\* every permit is in use while more units than permits are pending
C5_Witness ==
    /\ Cardinality(MidAttempt) = MAX_CONCURRENT_WRITES
    /\ Len(pending_tasks) > MAX_CONCURRENT_WRITES
    /\ \E t \in Tasks : pc[t] = "gate"

\* C6: once shutdown() has set the draining flag, no unit starts a new
\* attempt against the store, whether it waited for readiness, slept in
\* back-off, or waited for a permit when the flag was set
C6_NoAttemptWhileDraining ==
    [][shutting_down =>
        \A t \in Tasks : attempts'[t] = attempts[t]]_vars

\* C7: a unit that finds the system draining is dropped without error: its
\* task ends normally, no exception leaves the retry executor and the done
\* callback records no failure
C7_DrainDropsSilently ==
    /\ \A t \in Tasks : pc[t] # "error"
    /\ fail_logged = {}

\* C8: shutdown() closes the pool and returns only after all the tasks that
\* were pending at its call are done; the flag is set at the call, the pool
\* is closed only after the wait of the drain
C8_CloseAfterDrain ==
    /\ [](shutdowns > 0 /\ shutdown_pc \in {"closing", "idle"} =>
             \A t \in drain_tasks : pc[t] \in Finished)
    /\ [](\A h \in Handles : pool[h] = "closing" => shutdown_pc = "closing")
    /\ [][shutdowns' # shutdowns => shutting_down']_vars

\* shutdown() closes the pool after a drain whose tasks all ended on their
\* own, one of them with success
C8_Witness ==
    /\ shutdown_pc = "closing"
    /\ drain_tasks # {}
    /\ \A t \in drain_tasks : pc[t] \in {"done", "error"}
    /\ \E t \in drain_tasks : pc[t] = "done"

\* C9: shutdown() always terminates: when a pending task does not complete on
\* its own the timeout ends the drain, the unfinished tasks are cancelled, and
\* shutdown() closes the pool and returns
C9_ShutdownTerminates ==
    /\ [](shutdown_pc = "cancelling" =>
             \A t \in drain_tasks : pc[t] \in Finished \/ t \in cancel_req)
    /\ (shutdown_pc # "idle") ~> (shutdown_pc = "idle")

\* shutdown() returned after a drain that cancelled a task
C9_Witness ==
    /\ shutdowns > 0
    /\ shutdown_pc = "idle"
    /\ \E t \in drain_tasks : pc[t] = "cancelled"

\* a step that is a call of shutdown()
ShutdownCalled == shutdowns' # shutdowns

\* C10 as stated: shutdown() called when startup() never ran returns without
\* waiting on anything and performs no pool or store operation
C10_Original ==
    [][ShutdownCalled /\ ~startup_ran =>
        shutdown_pc' = "idle" /\ storeVars' = storeVars]_vars

\* C10 amended: shutdown() called when startup() never ran performs no pool or
\* store operation, and returns without waiting when no task is pending (it
\* waits for the drain of the units submitted before it otherwise)
C10_ShutdownBeforeStartup ==
    /\ [][ShutdownCalled /\ ~startup_ran =>
            /\ storeVars' = storeVars
            /\ pending_tasks = <<>> => shutdown_pc' = "idle"]_vars
    /\ [](~startup_ran =>
            pg_storage = 0 /\ connecting = {} /\ shutdown_pc # "closing")

\* shutdown() was called and returned, startup() never called, replication
\* configured
C10_Witness ==
    /\ ~startup_ran
    /\ shutdowns > 0
    /\ shutdown_pc = "idle"
    /\ should_write_to_postgres

\* the PostgresStorage objects constructed so far; each was constructed by
\* startup(), which called its connect() and so asyncpg.create_pool once
Constructed == {h \in Handles : pool[h] # "absent"}

\* C11: with replication enabled, the calls of startup() made before any
\* shutdown(), one after the other or overlapping, construct one storage
\* object and call create_pool once; with replication disabled startup()
\* constructs no object and no pool
C11_StartupCreatesPoolOnce ==
    /\ shutdowns = 0 => Cardinality(Constructed) <= 1
    /\ shutdowns = 0 /\ startup_calls > 0 /\ should_write_to_postgres =>
            Cardinality(Constructed) = 1 /\ pg_storage # 0
    /\ ~should_write_to_postgres =>
            Constructed = {} /\ pg_storage = 0 /\ connecting = {}

\* startup() was called again while the connect() of the first call awaited
\* its pool
C11_Witness ==
    /\ shutdowns = 0
    /\ startup_calls >= 2
    /\ connecting # {}
    /\ Cardinality(Constructed) = 1

\* C12: every key in the partition cache is that of a month whose
\* partition-create operation has returned with success: no key is in the
\* cache while its create is in progress, nor after its create failed
C12_CacheOnlyCreated == partition_cache \subseteq partitions

\* the log-batch units whose insert_logs was called and has not returned
InsertAttempted == inserting

\* C13: the bulk insert of a log batch is attempted only after the partition
\* of each month of the batch was created in the store, whatever other
\* log-batch units of the same months do meanwhile
C13_InsertAfterPartitions ==
    \A t \in InsertAttempted : KeysOf(batch[t].logs) \subseteq partitions

\* C14: once a create of a month succeeded no further create of that month is
\* issued (ensuring it again issues none); a create is issued only for a
\* month that is not cached, each create after the first follows a failed
\* one, and a failed create leaves the month out of the cache
C14_EnsureOnce ==
    /\ [](\A m \in Months : create_calls[m] <= create_fails[m] + 1)
    /\ [](\A m \in partitions : create_calls[m] = create_fails[m] + 1)
    /\ [][\A m \in Months :
            /\ create_calls'[m] > create_calls[m] =>
                    m \notin partition_cache /\ m \notin partitions
            /\ create_fails'[m] > create_fails[m] =>
                    m \notin partition_cache']_vars

\* a month whose first create failed was created by the second, and was
\* then ensured again by a unit that skipped it
C14_Witness ==
    \E m \in Months :
        /\ create_calls[m] = 2
        /\ create_fails[m] = 1
        /\ m \in partitions
        /\ \E t \in Tasks : m \in skipped[t] /\ pc[t] = "done"

C16_BacklogWarning ==
    [][LET grown == Len(pending_tasks') > Len(pending_tasks)
           over == Len(pending_tasks') > QUEUE_WARN_THRESHOLD
       IN  IF grown /\ over
           THEN /\ Len(backlog_warnings') = Len(backlog_warnings) + 1
                /\ backlog_warnings'[Len(backlog_warnings')].size =
                        Len(pending_tasks')
           ELSE backlog_warnings' = backlog_warnings]_vars

\* the size exceeded the threshold by one, dropped back to the threshold and
\* exceeded it again: two warnings of the same size, and the set is back at
\* the threshold with no warning since
C16_Witness ==
    /\ Len(backlog_warnings) = 2
    /\ backlog_warnings[1].size = QUEUE_WARN_THRESHOLD + 1
    /\ backlog_warnings[2].size = QUEUE_WARN_THRESHOLD + 1
    /\ Len(pending_tasks) = QUEUE_WARN_THRESHOLD

\* the units whose execution has begun and has not ended
Executing == {t \in Tasks : pc[t] \notin {"none"} \cup Finished}

\* C17: a task is in the pending set from the moment its unit is scheduled
\* until it finishes: a unit that is still executing is never absent from the
\* pending set (a finished task leaves the set at its done callback)
C17_PendingWhileExecuting ==
    \A t \in Executing : t \in SeqToSet(pending_tasks)

\* the tables of a store, without its clock
Tables(d) ==
    [sessions |-> d.sessions, credentials |-> d.credentials,
     api_keys |-> d.api_keys, logs |-> d.logs]

\* C18: for every snapshot of every kind, submitting it twice and letting
\* both units succeed leaves the store as submitting it once does, whenever
\* the second unit runs
C18_ResubmitSameStore ==
    \A u \in Snapshots : ~Rejected(u, db) =>
        \A n \in db.now..MaxNow :
            LET once == Apply(u, db)
                twice == Apply(u, [once EXCEPT !.now = n])
            IN  Tables(twice) = Tables(once)

\* C19: whenever no connection string of the secondary store is resolved,
\* the effective mode is disabled (sqlite) whatever mode was asked for, and
\* should_write_to_postgres() and the replication-enabled predicate are
\* false, in every state after the configuration is resolved
C19_NoDsnDisables ==
    ~postgres_config =>
        /\ storage_mode = "sqlite"
        /\ ~should_write_to_postgres
        /\ ~replication_enabled

\* dual or postgres was asked for without a connection string: startup() ran
\* and a submission was refused
C19_Witness ==
    /\ mode_raw \in {"dual", "postgres"}
    /\ ~postgres_config
    /\ startup_ran
    /\ refused > 0
    /\ pg_storage = 0

\* C20: while the connection pool is not connected (not yet connected, still
\* connecting, or torn down) a unit stays in the readiness wait: no step
\* taken in such a state executes a unit of work or counts a failed attempt
\* and its back-off sleep
C20_NotConnectedOnlyWaits ==
    [][~StoreUsable =>
        \A t \in Tasks :
            /\ attempts'[t] = attempts[t]
            /\ Len(slept'[t]) = Len(slept[t])]_vars

\* the tasks that ended cancelled
Cancelled == {t \in Tasks : pc[t] = "cancelled"}

\* C21: a task cancel() was called on makes no further attempt and no write,
\* and the next step it takes ends it as cancelled, wherever it is suspended;
\* a cancelled task stays cancelled
C21_CancelPropagates ==
    /\ [][\A t \in cancel_req \cup Cancelled :
            /\ attempts'[t] = attempts[t]
            /\ successes'[t] = successes[t]
            /\ pc'[t] \in {pc[t], "cancelled"}]_vars
    /\ [](\A t \in Tasks : cancelled_from[t] # "none" => pc[t] = "cancelled")

\* three tasks ended cancelled: one that waited for a permit, one that was
\* inside its store operation and one that slept in backoff
C21_Witness ==
    \E a, b, c \in Cancelled :
        /\ cancelled_from[a] = "gate"
        /\ cancelled_from[b] = "op"
        /\ cancelled_from[c] = "backoff"

\* C22: what an attempt of a unit writes is the record as it was when the
\* submission function was called, whatever the caller did to the record
\* object since
C22_WritesRecordAtCall ==
    \A t \in Tasks :
        unit[t].obj # 0 /\ pc[t] \in {"op", "done"} =>
            params[t] = Unit(unit[t].fn, unit[t].id, unit[t].at_call, <<>>)

\* the units submitted for the session of id i; tasks are numbered in the
\* order of their submission
UnitsFor(i) == {t \in Tasks : unit[t] # NoUnit /\ unit[t].id = i}

\* C29: once every unit submitted for a session id has completed, the store
\* reflects the last submitted one: the row holds what the last snapshot
\* wrote, or is absent when a deletion was submitted last
C29_LastSubmittedWins ==
    \A i \in 1..MaxIds :
        UnitsFor(i) # {} /\ (\A t \in UnitsFor(i) : pc[t] = "done") =>
            LET last == CHOOSE t \in UnitsFor(i) :
                            \A u \in UnitsFor(i) : u <= t
                rows == {r \in db.sessions : r.id = i}
            IN  IF unit[last].fn = "replicate_session_deletion"
                THEN rows = {}
                ELSE \E r \in rows :
                        /\ r.guild_id = params[last].guild_id
                        /\ r.data = params[last].data
                        /\ r.start_time = params[last].start_time
                        /\ r.end_time = params[last].end_time
                        /\ r.credentials_id = params[last].ref

\* the cutoffs of a cleanup
Cutoffs == 1..(MaxNow + 1)

\* C23: cleanup_expired_sessions(before) deletes exactly the sessions that
\* are soft-deleted and whose end_time, or start_time when end_time is null,
\* is earlier than `before`, and returns exactly the ids it deleted; a session
\* never marked deleted is never removed; a session created, updated and then
\* marked deleted is removed by a cleanup with a cutoff after its end
C23_CleanupExpired ==
    /\ \A before \in Cutoffs :
        LET res == cleanup_expired_sessions(db, before)
            removed == db.sessions \ res.db.sessions
        IN  /\ res.db.sessions \subseteq db.sessions
            /\ \A r \in db.sessions :
                    r \in removed <=>
                        /\ r.deleted_at # 0
                        /\ IF r.end_time # 0 THEN r.end_time < before
                           ELSE r.start_time < before
            /\ res.ids = {r.id : r \in removed}
            /\ \A i \in res.ids : ~\E r \in res.db.sessions : r.id = i
    /\ \A u \in TimedSessions, e \in 1..MaxNow, at \in 0..MaxNow :
        LET d1 == Apply(u, db)
            d2 == update_session_end(d1, u.id, e)
            d3 == mark_session_deleted(d2, u.id, at)
        IN  \A before \in Cutoffs :
                before > e => u.id \in cleanup_expired_sessions(d3, before).ids

\* a cleanup returned the id of the session and the store holds no session,
\* while the clock of the store stands at its last time
C23_Witness ==
    /\ returned.fn = "cleanup_expired_sessions"
    /\ returned.ids = {1}
    /\ db.sessions = {}
    /\ db.now = MaxNow

\* C24: for a session with no stored logs, insert_logs of n lines returns n;
\* fetch_logs then returns exactly those n lines in ascending event_time
\* order; purge_session_logs then returns n and leaves no log of the session
C24_InsertFetchPurge ==
    \A i \in 1..MaxIds, l \in LogBatches :
        RowsOf(db, i) = <<>> /\ InsertAccepted(db, partitions, i, l) =>
            LET d1 == insert_logs(db, i, l)
                n == Len(l)
            IN  /\ insert_logs_result(l) = n
                /\ fetch_logs(d1, i) # {}
                /\ \A f \in fetch_logs(d1, i) :
                        /\ Len(f) = n
                        /\ SeqToSet(f) = SeqToSet(l)
                        /\ \A j, k \in 1..n :
                                j < k => ~Earlier(f[k].event_time,
                                                  f[j].event_time)
                /\ purge_session_logs_result(d1, i) = n
                /\ RowsOf(purge_session_logs(d1, i), i) = <<>>

\* two lines were inserted later line first, and fetch_logs returned them
\* earlier line first
C24_Witness ==
    /\ returned.fn = "fetch_logs"
    /\ Len(db.logs) = 2
    /\ Earlier(db.logs[2].line.event_time, db.logs[1].line.event_time)
    /\ returned.lines = <<db.logs[2].line, db.logs[1].line>>

\* C25: after a successful upsert of a session, a credential or an API key,
\* the stored row of the id holds the value of the snapshot in every column
\* but the id, whether or not a row of the id existed
C25_UpsertStoresSnapshot ==
    \A u \in Snapshots : ~Rejected(u, db) =>
        LET d1 == Apply(u, db)
        IN  CASE u.fn = "replicate_session" ->
                    \E r \in d1.sessions :
                        /\ r.id = u.id
                        /\ r.guild_id = u.guild_id
                        /\ r.data = u.data
                        /\ r.start_time = u.start_time
                        /\ r.end_time = u.end_time
                        /\ r.credentials_id = u.ref
              [] u.fn = "replicate_credentials" ->
                    {c \in d1.credentials : c.id = u.id} =
                        {[id |-> u.id, guild_id |-> u.guild_id,
                          data |-> u.data]}
              [] u.fn = "replicate_api_key" ->
                    {k \in d1.api_keys : k.id = u.id} =
                        {[id |-> u.id, guild_id |-> u.guild_id,
                          data |-> u.data]}
              [] OTHER -> TRUE

\* C26: whenever postgres_ready() is true the pool of the handle is connected
\* and usable: not while startup() is still connecting, and not after a
\* startup() whose connect failed
C26_ReadyMeansUsable == postgres_ready => StoreUsable

\* C27: from the step of shutdown() that sets the draining flag until
\* shutdown() has returned the flag stays set, and no submission is accepted
C27_DrainFlagStays ==
    /\ [](shutdown_pc # "idle" => shutting_down)
    /\ [][shutdown_pc # "idle" => NewTask' = NewTask]_vars

\* C28: whenever shutdown() closes the pool, no unit holds a permit or is
\* inside a store operation
C28_NoAttemptAtClose ==
    (\E h \in Handles : pool[h] = "closing") =>
        \A t \in Tasks : pc[t] \notin {"op", "granted"}

\* the units that hold a permit: a unit inside its attempt, and a waiter that
\* release() handed the permit to and that starts its attempt when it resumes
PermitHolders == {t \in Tasks : pc[t] \in {"op", "granted"}}

\* C30: in every state the free permits and the permits held add up to
\* MAX_CONCURRENT_WRITES: a unit holds none while it waits for readiness,
\* sleeps in back-off or waits at the gate, and none after it ended by
\* success, failure or cancellation
C30_PermitsConserved ==
    /\ gate_value >= 0
    /\ gate_value + Cardinality(PermitHolders) = MAX_CONCURRENT_WRITES

\* permits went round: a unit failed and slept, a unit succeeded, a waiter
\* that was handed a permit was cancelled before it resumed, and a waiter was
\* cancelled at the gate
C30_Witness ==
    /\ \E t \in Tasks : slept[t] # <<>>
    /\ \E t \in Tasks : pc[t] = "done"
    /\ \E t \in Tasks : cancelled_from[t] = "granted"
    /\ \E t \in Tasks : cancelled_from[t] = "gate"

\* the text of the first day of the month that is n months after January of
\* year 0
MonthText(n) == Fmt(n \div 12, 4) \o <<"-">> \o Fmt((n % 12) + 1, 2)
                    \o <<"-", "0", "1">>

\* C33: the statement ensure_partitions builds for the month start of year Y,
\* month M names the partition session_logs_Y_MM and ranges from the first
\* day of M to the first day of the month that follows, January of Y + 1
\* after December of Y
C33_PartitionOfMonth ==
    ddl # NoDdl =>
        LET Y == event_time.y
            M == event_time.m
        IN  /\ ddl.name = <<"session_logs_">> \o Fmt(Y, 4) \o <<"_">>
                            \o Fmt(M, 2)
            /\ ddl.start = MonthText(Y * 12 + M - 1)
            /\ ddl.end = MonthText(Y * 12 + M)
            /\ M = 12 => ddl.end = Fmt(Y + 1, 4) \o <<"-", "0", "1", "-",
                                                       "0", "1">>

\* the partition of a December was built, for a line of its last day
C33_Witness ==
    /\ ddl # NoDdl
    /\ event_time.m = 12
    /\ event_time.d = 31
    /\ ddl.start = Fmt(FirstYear, 4) \o <<"-", "1", "2", "-", "0", "1">>

\* the calendar month that holds an event time expressed in UTC, counted in
\* months from January of year 0; a naive time is taken as UTC
UtcMonth(dt) ==
    LET hour == dt.h - (IF dt.aware THEN dt.off ELSE 0)
        n == dt.y * 12 + dt.m - 1
    IN  IF hour < 0 /\ dt.d = 1 THEN n - 1
        ELSE IF hour >= 24 /\ dt.d = DaysIn(dt.y, dt.m) THEN n + 1
        ELSE n

\* C34: the key derived for a log line is the first day of the calendar month
\* that holds the event time of the line expressed in UTC, for naive and for
\* aware event times
C34_KeyIsUtcMonth ==
    month_key # <<>> => month_key = MonthText(UtcMonth(event_time))

\* C35: the body of a function wrapped by only_once is executed at most once
\* over all calls, overlapping ones included, and every call made after the
\* one that ran raises ExpiredButtonError
C35_BodyAtMostOnce ==
    /\ body_runs <= 1
    /\ Cardinality({i \in 1..MaxInvocations :
            invocation[i] \in {"running", "returned", "raised"}}) <= 1

\* C31: when the create of a partition fails inside the attempt of a log
\* batch, the month leaves the cache, the attempt issues no insert and writes
\* nothing, and the unit sleeps for its delay; the attempt that follows runs
\* the whole unit again: every month of the batch is looked up, the first one
\* that is not cached is created, and the insert is issued only with every
\* month found in the cache
C31_CreateFailRetriesUnit ==
    /\ [][\A t \in Tasks :
            pc[t] = "op" /\ creating[t] # 0 /\ pc'[t] = "backoff" =>
                /\ creating[t] \notin partition_cache'
                /\ create_fails'[creating[t]] = create_fails[creating[t]] + 1
                /\ t \notin inserting'
                /\ \A i \in 1..Len(calls'[t]) : calls'[t][i].op # "insert"
                /\ db' = db
                /\ slept'[t] = Append(slept[t], delay[t])]_vars
    /\ [][\A t \in Tasks :
            batch[t] # NoBatch /\ pc[t] = "backoff" /\ pc'[t] = "op" =>
                /\ attempts'[t] = attempts[t] + 1
                /\ Len(calls'[t]) = 1
                /\ skipped'[t] \subseteq partition_cache
                /\ IF t \in inserting'
                   THEN skipped'[t] = KeysOf(batch[t].logs)
                   ELSE /\ creating'[t] \in KeysOf(batch[t].logs)
                        /\ creating'[t] \notin partition_cache
                        /\ calls'[t][1].op = "create"
                        /\ skipped'[t] \cup {creating'[t]}
                                \cup {PartitionKey(ensure_todo'[t][i]) :
                                        i \in 1..Len(ensure_todo'[t])}
                            = KeysOf(batch[t].logs)]_vars

\* the first attempt of a batch failed at the create of a month; the second
\* attempt created the month and inserted the lines
C31_Witness ==
    \E t \in Tasks, m \in Months :
        /\ pc[t] = "done"
        /\ attempts[t] = 2
        /\ Len(slept[t]) = 1
        /\ create_fails[m] = 1
        /\ m \in partitions
        /\ calls[t][1] = [op |-> "create", month |-> m, lines |-> <<>>]
        /\ calls[t][Len(calls[t])].op = "insert"
        /\ Len(db.logs) = Len(batch[t].logs)

\* C32: with no shutdown and no cancellation a unit is never given up,
\* whatever the number of its failed attempts: it ends only by an attempt
\* that succeeded, it is in the pending set until then, and a unit that
\* sleeps in back-off can always go on to its next attempt, which is its next
\* step
C32_RetriedWithoutBound ==
    /\ [](\A t \in Tasks :
            /\ pc[t] \in Finished => pc[t] = "done" /\ successes[t] = 1
            /\ pc[t] \notin {"none"} \cup Finished =>
                    t \in SeqToSet(pending_tasks)
            /\ pc[t] = "backoff" => ENABLED LoopTop(t, MaxRetryFails))
    /\ [][\A t \in Tasks :
            pc[t] = "backoff" /\ pc'[t] # "backoff" =>
                /\ pc'[t] = "op"
                /\ attempts'[t] = attempts[t] + 1]_vars

\* a unit failed MaxRetryFails times in a row and is pending, inside its next
\* attempt
C32_Witness ==
    \E t \in Tasks :
        /\ Len(slept[t]) = MaxRetryFails
        /\ attempts[t] = MaxRetryFails + 1
        /\ pc[t] = "op"
        /\ successes[t] = 0
        /\ t \in SeqToSet(pending_tasks)

====
